---- MODULE Spec2Model ----
(***************************************************************************)
(* Model of the CI record reconciliation scripts (DR plan duplicate        *)
(* analysis, manual-entry policy check, name decomposition).               *)
(*                                                                         *)
(* Text values are sequences of one-character strings; a missing cell      *)
(* (pandas NaN / Python None) is the value None.  A table is a sequence of *)
(* rows (records); the position of a row is its pandas index.              *)
(***************************************************************************)
EXTENDS Integers, Sequences, FiniteSets, TLC

VARIABLES
    data,         \* the DataFrame the analyzer works on (sequence of rows)
    columns,      \* the column names present in the DataFrame
    calls,        \* the calls the driver (main) still has to make, in order
    results,      \* finding collections produced so far, by analysis name
    device_name,  \* the argument of the scalar extract_device_info variants
    device_info,  \* what the scalar extract_device_info variants returned
    header,       \* the column names of the table as loaded, in file order
    error,        \* the exception that ended the run, NoError while there is none
    files,        \* the two CSV files the comparison tool is given
    stdin         \* the lines the user will still type at the tool's prompt

vars == <<data, columns, calls, results, device_name, device_info, header, error,
          files, stdin>>

(***************************************************************************)
(* Bounds                                                                  *)
(***************************************************************************)
MaxLen == 4       \* longest device name drawn for the name decomposer
MaxRows == 3      \* most rows in an input table

(***************************************************************************)
(* Text primitives (Python str / pandas .str semantics)                    *)
(***************************************************************************)
None == <<"NaN">>

isna(x) == x = None

notna(x) == x # None

LowerLetters ==
    <<"a","b","c","d","e","f","g","h","i","j","k","l","m",
      "n","o","p","q","r","s","t","u","v","w","x","y","z">>

UpperLetters ==
    <<"A","B","C","D","E","F","G","H","I","J","K","L","M",
      "N","O","P","Q","R","S","T","U","V","W","X","Y","Z">>

UpperChar(c) ==
    IF \E i \in 1..26 : LowerLetters[i] = c
    THEN UpperLetters[CHOOSE i \in 1..26 : LowerLetters[i] = c]
    ELSE c

LowerChar(c) ==
    IF \E i \in 1..26 : UpperLetters[i] = c
    THEN LowerLetters[CHOOSE i \in 1..26 : UpperLetters[i] = c]
    ELSE c

upper(s) == [i \in 1..Len(s) |-> UpperChar(s[i])]

lower(s) == [i \in 1..Len(s) |-> LowerChar(s[i])]

IsSpace(c) == c \in {" ", "\t", "\n", "\r"}

RECURSIVE lstrip(_)
lstrip(s) == IF s # <<>> /\ IsSpace(Head(s)) THEN lstrip(Tail(s)) ELSE s

RECURSIVE rstrip(_)
rstrip(s) ==
    IF s # <<>> /\ IsSpace(s[Len(s)]) THEN rstrip(SubSeq(s, 1, Len(s) - 1)) ELSE s

strip(s) == rstrip(lstrip(s))

\* position of the first occurrence of sub in s, 0 when there is none
find(s, sub) ==
    LET hits == {i \in 1..(Len(s) - Len(sub) + 1) :
                    SubSeq(s, i, i + Len(sub) - 1) = sub}
    IN  IF hits = {} THEN 0 ELSE CHOOSE i \in hits : \A j \in hits : i <= j

\* Python "sub in s"
contains(s, sub) == find(s, sub) # 0

\* str(x) of a Python None
str_none(x) == IF isna(x) THEN <<"N","o","n","e">> ELSE x

\* str(x) of a cell: a missing value prints as nan
astype_str(x) == IF isna(x) THEN <<"n","a","n">> ELSE x

\* s.split(sep, 1): at most one split, at the first occurrence of sep
split1(s, sep) ==
    LET i == find(s, sep)
    IN  IF i = 0 THEN <<s>>
        ELSE <<SubSeq(s, 1, i - 1), SubSeq(s, i + Len(sep), Len(s))>>

(***************************************************************************)
(* Name decomposition                                                      *)
(***************************************************************************)
\* cla3oct19.py extract_device_info, one row of the vectorised assignment:
\* the prefix column starts as None and the actual name as the name cell;
\* only rows whose str(name) contains ':' are overwritten.
extract_device_info_row(name) ==
    IF contains(astype_str(name), <<":">>)
    THEN <<strip(split1(name, <<":">>)[1]), strip(split1(name, <<":">>)[2])>>
    ELSE <<None, name>>

\* extract_device_info of the first cla1 listing with the trimming forgotten
extract_device_info_a_untrimmed(name) ==
    IF isna(name) THEN <<None, None>>
    ELSE IF contains(name, <<":">>)
         THEN <<split1(name, <<":">>)[1], split1(name, <<":">>)[2]>>
         ELSE <<None, name>>

\* cla1 (first listing) extract_device_info(device_name)
extract_device_info_a(name) ==
    IF isna(name) THEN <<None, None>>
    ELSE LET s == strip(name)
         IN  IF contains(s, <<":">>)
             THEN <<strip(split1(s, <<":">>)[1]), strip(split1(s, <<":">>)[2])>>
             ELSE <<None, s>>

\* cla1 (second listing) extract_device_info(device_name)
extract_device_info_b(name) ==
    IF isna(name) THEN <<None, astype_str(name)>>
    ELSE IF contains(name, <<":">>)
         THEN <<strip(split1(name, <<":">>)[1]), strip(split1(name, <<":">>)[2])>>
         ELSE <<None, strip(name)>>

(***************************************************************************)
(* Tables                                                                  *)
(***************************************************************************)
\* a row as loaded: the canonical columns, derived columns not yet present
Row(name, type, plan, serial, manual, env) ==
    [name |-> name, type |-> type, plan |-> plan, serial_number |-> serial,
     manual_entry |-> manual, environment |-> env,
     name_type_prefix |-> None, actual_device_name |-> None, type_mismatch |-> FALSE]

NotRun == <<"not run">>

NoResults == [a \in {} |-> <<>>]

NoDeviceInfo == [v \in {"a", "b"} |-> NotRun]

\* the next call the driver makes
NextCall(op) == calls # <<>> /\ Head(calls) = op

(***************************************************************************)
(* Column names                                                            *)
(***************************************************************************)
NoError == "none"

\* no comparison is made by the analysis scripts
NoFiles == <<>>

COL_Name == <<"N","a","m","e">>

COL_name == <<"n","a","m","e">>

COL_NAME == <<"N","A","M","E">>

COL_Serial_Number == <<"S","e","r","i","a","l"," ","N","u","m","b","e","r">>

COL_u_serial_number == <<"u","_","s","e","r","i","a","l","_","n","u","m","b","e","r">>

COL_Manual_Entry == <<"M","a","n","u","a","l"," ","E","n","t","r","y">>

COL_u_manual_entry == <<"u","_","m","a","n","u","a","l","_","e","n","t","r","y">>

COL_Type == <<"T","y","p","e">>

COL_u_type == <<"u","_","t","y","p","e">>

COL_type == <<"t","y","p","e">>

COL_Plan == <<"P","l","a","n">>

COL_plan == <<"p","l","a","n">>

COL_Environment == <<"E","n","v","i","r","o","n","m","e","n","t">>

COL_u_environment == <<"u","_","e","n","v","i","r","o","n","m","e","n","t">>

COL_Server_Environment == <<"S","e","r","v","e","r"," ","E","n","v","i","r","o","n","m","e","n","t">>

COL_u_server_environment == <<"u","_","s","e","r","v","e","r","_","e","n","v","i","r","o","n","m","e","n","t">>

COL_serial_number == <<"s","e","r","i","a","l","_","n","u","m","b","e","r">>

COL_manual_entry == <<"m","a","n","u","a","l","_","e","n","t","r","y">>

COL_environment == <<"e","n","v","i","r","o","n","m","e","n","t">>

COL_Device_Name == <<"D","e","v","i","c","e"," ","N","a","m","e">>

COL_CI_Type == <<"C","I"," ","T","y","p","e">>

COL_Comments == <<"C","o","m","m","e","n","t","s">>

\* the canonical fields and their column names
CanonicalName ==
    [name |-> COL_name, serial_number |-> COL_serial_number,
     manual_entry |-> COL_manual_entry, type |-> COL_type, plan |-> COL_plan,
     environment |-> COL_environment]

\* the canonical fields a list of column names has a column for
canonical_columns(hdr) ==
    {f \in DOMAIN CanonicalName : \E k \in 1..Len(hdr) : hdr[k] = CanonicalName[f]}

\* the order the columns of a loaded table are drawn in
FieldOrder == <<"name", "type", "plan", "serial_number", "manual_entry", "environment">>

\* the header of a table that has the given canonical columns under their
\* canonical names
CanonicalHeader(cols) ==
    LET fields == SelectSeq(FieldOrder, LAMBDA f : f \in cols)
    IN  [k \in 1..Len(fields) |-> CanonicalName[fields[k]]]

\* the names analyze_servicenow_data of p.py knows the fields by
ServicenowName ==
    [name |-> COL_Device_Name, type |-> COL_CI_Type, plan |-> COL_Plan,
     serial_number |-> COL_Serial_Number, manual_entry |-> COL_Manual_Entry,
     environment |-> COL_Server_Environment]

\* the header of a sheet of a ServiceNow export that has the given columns
ServicenowHeader(cols) ==
    LET fields == SelectSeq(FieldOrder, LAMBDA f : f \in cols)
    IN  [k \in 1..Len(fields) |-> ServicenowName[fields[k]]]

\* the header a table with the given columns is loaded with by the script
\* that makes the given calls
LoadedHeader(script, cols) ==
    IF script = <<"analyze_servicenow_data">> THEN ServicenowHeader(cols)
    ELSE CanonicalHeader(cols)

\* cla3oct19.py DRPlanAnalyzer.__init__: column_mapping, in dict order
column_mapping ==
    <<[standard_name |-> "name", possible_names |-> {COL_Name, COL_name}],
      [standard_name |-> "serial_number",
       possible_names |-> {COL_Serial_Number, COL_u_serial_number}],
      [standard_name |-> "manual_entry",
       possible_names |-> {COL_Manual_Entry, COL_u_manual_entry}],
      [standard_name |-> "type", possible_names |-> {COL_Type, COL_u_type}],
      [standard_name |-> "plan", possible_names |-> {COL_Plan, COL_plan}],
      [standard_name |-> "environment",
       possible_names |-> {COL_Environment, COL_u_environment,
                           COL_Server_Environment, COL_u_server_environment}]>>

\* normalize_columns: the first column, in file order, that is one of the
\* possible names of mapping entry m (0 when there is none)
first_possible(hdr, m) ==
    LET found == {k \in 1..Len(hdr) : hdr[k] \in column_mapping[m].possible_names}
    IN  IF found = {} THEN 0 ELSE CHOOSE k \in found : \A j \in found : k <= j

\* normalize_columns: data.rename(columns=normalized_cols)
rename(hdr) ==
    [k \in 1..Len(hdr) |->
        IF \E m \in 1..Len(column_mapping) : first_possible(hdr, m) = k
        THEN CanonicalName[
                 column_mapping[CHOOSE m \in 1..Len(column_mapping) :
                                    first_possible(hdr, m) = k].standard_name]
        ELSE hdr[k]]

\* the required-column check looking for the name column only
missing_name_only(hdr) == {"name"} \ canonical_columns(hdr)

\* normalize_columns: the required columns the renamed table does not have
missing(hdr) == {"name", "type", "plan"} \ canonical_columns(hdr)

\* cla3oct19.py DRPlanAnalyzer.normalize_columns as main calls it: renames
\* the columns in place, then raises ValueError when a required column is
\* missing; main catches the exception, prints it and makes no further call
normalize_columns ==
    /\ NextCall("normalize_columns")
    /\ header' = rename(header)
    /\ columns' = canonical_columns(rename(header))
    /\ IF missing(rename(header)) # {}
       THEN error' = "ValueError" /\ calls' = <<>>
       ELSE error' = error /\ calls' = Tail(calls)
    /\ UNCHANGED <<data, results, device_name, device_info, files, stdin>>

(***************************************************************************)
(* extract_device_info                                                     *)
(***************************************************************************)
\* cla3oct19.py DRPlanAnalyzer.extract_device_info: adds the two derived
\* columns to the DataFrame in place
extract_device_info ==
    /\ NextCall("extract_device_info")
    /\ data' = [i \in 1..Len(data) |->
                  [data[i] EXCEPT
                     !.name_type_prefix = extract_device_info_row(data[i].name)[1],
                     !.actual_device_name = extract_device_info_row(data[i].name)[2]]]
    /\ columns' = columns \cup {"name_type_prefix", "actual_device_name"}
    /\ calls' = Tail(calls)
    /\ UNCHANGED <<results, device_name, device_info>>
    /\ UNCHANGED <<header, error, files, stdin>>

\* a call of the scalar extract_device_info of the first cla1 listing
call_extract_device_info_a ==
    /\ NextCall("extract_device_info_a")
    /\ device_info' = [device_info EXCEPT !["a"] = extract_device_info_a(device_name)]
    /\ calls' = Tail(calls)
    /\ UNCHANGED <<data, columns, results, device_name>>
    /\ UNCHANGED <<header, error, files, stdin>>

\* a call of the scalar extract_device_info of the second cla1 listing
call_extract_device_info_b ==
    /\ NextCall("extract_device_info_b")
    /\ device_info' = [device_info EXCEPT !["b"] = extract_device_info_b(device_name)]
    /\ calls' = Tail(calls)
    /\ UNCHANGED <<data, columns, results, device_name>>
    /\ UNCHANGED <<header, error, files, stdin>>

(***************************************************************************)
(* Specification of the name decomposer: one name, each variant applied    *)
(***************************************************************************)
NameChars == {"a", "b", ":", " "}

RECURSIVE SeqsUpTo(_, _)
SeqsUpTo(S, n) ==
    IF n = 0 THEN {<<>>}
    ELSE LET shorter == SeqsUpTo(S, n - 1)
         IN  shorter \cup {Append(s, c) : s \in shorter, c \in S}

NameInputs == SeqsUpTo(NameChars, MaxLen) \cup {None}

NameScripts ==
    {<<"extract_device_info">>, <<"extract_device_info_a">>,
     <<"extract_device_info_b">>}

InitName ==
    /\ device_name \in NameInputs
    /\ data = <<Row(device_name, None, None, None, None, None)>>
    /\ columns = {"name", "type", "plan"}
    /\ calls \in NameScripts
    /\ results = NoResults
    /\ device_info = NoDeviceInfo
    /\ header = LoadedHeader(calls, columns)
    /\ error = NoError
    /\ files = NoFiles
    /\ stdin = <<>>

NextName ==
    \/ extract_device_info
    \/ call_extract_device_info_a
    \/ call_extract_device_info_b

SpecName == InitName /\ [][NextName]_vars

(***************************************************************************)
(* Claims about the name decomposer                                        *)
(***************************************************************************)
\* the decompositions computed so far, one per variant that has run
DecompCla3 == <<data[1].name_type_prefix, data[1].actual_device_name>>

RanCla3 == "actual_device_name" \in columns

RanA == device_info["a"] # NotRun

RanB == device_info["b"] # NotRun

\* index of the first ':' of a name that has one
FirstColon(s) == CHOOSE i \in 1..Len(s) : s[i] = ":" /\ \A j \in 1..(i - 1) : s[j] # ":"

HasColon(s) == notna(s) /\ \E i \in 1..Len(s) : s[i] = ":"

\* the decomposition the specification describes
ReferenceDecomposition(s) ==
    IF isna(s) THEN <<None, None>>
    ELSE IF HasColon(s)
         THEN <<strip(SubSeq(s, 1, FirstColon(s) - 1)),
                strip(SubSeq(s, FirstColon(s) + 1, Len(s)))>>
         ELSE <<None, strip(s)>>

\* C9: the decomposition of a full_name equals the reference function: split
\* at the first ':' with both parts trimmed, (None, trimmed name) without a
\* ':', and (None, None) for a missing name - in cla3oct19.py's
\* extract_device_info and in the second cla1 listing's extract_device_info.
C9_DecompositionIsReference ==
    /\ RanCla3 => DecompCla3 = ReferenceDecomposition(device_name)
    /\ RanB => device_info["b"] = ReferenceDecomposition(device_name)

Recompose(d) == d[1] \o <<":">> \o d[2]

\* C10 as stated: for every full_name containing ':', prefix + ':' + core of
\* its decomposition is the original full_name - in cla3oct19.py's
\* extract_device_info and in the first cla1 listing's extract_device_info.
C10_RecomposeIsOriginal ==
    HasColon(device_name) =>
        /\ RanCla3 => Recompose(DecompCla3) = device_name
        /\ RanA => Recompose(device_info["a"]) = device_name

\* no whitespace at either end of the text before, or of the text after,
\* the first ':'
NoSpaceAroundParts(s) ==
    LET i == FirstColon(s)
    IN  /\ i > 1 => ~IsSpace(s[1]) /\ ~IsSpace(s[i - 1])
        /\ i < Len(s) => ~IsSpace(s[i + 1]) /\ ~IsSpace(s[Len(s)])

\* C10 amended: for every full_name containing ':', prefix + ':' + core
\* reproduces the original full_name exactly when, and only when, neither the
\* text before nor the text after the first ':' has leading or trailing
\* whitespace; in every case decomposing the recomposed name gives the same
\* decomposition again.
C10_RecomposeUpToTrim ==
    HasColon(device_name) =>
        /\ RanCla3 =>
              /\ (Recompose(DecompCla3) = device_name) = NoSpaceAroundParts(device_name)
              /\ extract_device_info_row(Recompose(DecompCla3)) = DecompCla3
        /\ RanA =>
              /\ (Recompose(device_info["a"]) = device_name)
                     = NoSpaceAroundParts(device_name)
              /\ extract_device_info_a(Recompose(device_info["a"])) = device_info["a"]

\* a name with ':' and untrimmed parts has been decomposed by both variants
C10_Witness ==
    /\ HasColon(device_name)
    /\ ~NoSpaceAroundParts(device_name)
    /\ RanCla3 \/ RanA

(***************************************************************************)
(* Policy violation detection (manual entry in a non-production            *)
(* environment)                                                            *)
(***************************************************************************)
\* the row indices of a table, in order
Index(tbl) == [i \in 1..Len(tbl) |-> i]

\* the finding collection an analysis returned, its rows tagged with the
\* index (idx) of the record each was built from
Done(rows) == [raised |-> FALSE, rows |-> rows]

\* the analysis ended in an exception and returned nothing
Raised == [raised |-> TRUE, rows |-> <<>>]

Ran(a) == a \in DOMAIN results

Finding(tbl, i) == tbl[i] @@ [idx |-> i]

\* cla3oct19.py analysis_4: ['TRUE', 'T', '1', 'YES']
MANUAL_UPPER == {<<"T","R","U","E">>, <<"T">>, <<"1">>, <<"Y","E","S">>}

\* cla1 analyze_manual_nonprod_entries: ['true', '1', 'yes', 't']
MANUAL_LOWER == {<<"t","r","u","e">>, <<"1">>, <<"y","e","s">>, <<"t">>}

\* cla1 analyze_manual_nonprod_entries: ['production', 'prod', 'prd']
PRODUCTION_TOKENS ==
    {<<"p","r","o","d","u","c","t","i","o","n">>, <<"p","r","o","d">>, <<"p","r","d">>}

\* p.py analyze_servicenow_data: ['production', 'prod']
PRODUCTION_TOKENS_P == {<<"p","r","o","d","u","c","t","i","o","n">>, <<"p","r","o","d">>}

\* cla3oct19.py DRPlanAnalyzer.analysis_4_manual_non_production
analysis_4_rows(tbl, cols) ==
    IF "manual_entry" \notin cols THEN <<>>
    ELSE LET manual_data ==
                 SelectSeq(Index(tbl),
                     LAMBDA i : upper(astype_str(tbl[i].manual_entry)) \in MANUAL_UPPER)
             non_prod_manual ==
                 IF "environment" \in cols
                 THEN SelectSeq(manual_data,
                          LAMBDA i : ~contains(upper(astype_str(tbl[i].environment)),
                                               <<"P","R","O","D">>))
                 ELSE manual_data
         IN  [k \in 1..Len(non_prod_manual) |-> Finding(tbl, non_prod_manual[k])]

analysis_4_manual_non_production ==
    /\ NextCall("analysis_4_manual_non_production")
    /\ results' = ("analysis_4" :> Done(analysis_4_rows(data, columns))) @@ results
    /\ calls' = Tail(calls)
    /\ UNCHANGED <<data, columns, device_name, device_info>>
    /\ UNCHANGED <<header, error, files, stdin>>

\* cla1 (first listing) analyze_manual_nonprod_entries: is_nonprod
is_nonprod(x) == isna(x) \/ strip(lower(astype_str(x))) \notin PRODUCTION_TOKENS

manual_nonprod_rows(tbl, cols) ==
    LET manual_entries ==
            SelectSeq(Index(tbl),
                LAMBDA i : lower(astype_str(tbl[i].manual_entry)) \in MANUAL_LOWER)
        nonprod_manual ==
            IF "environment" \in cols
            THEN SelectSeq(manual_entries, LAMBDA i : is_nonprod(tbl[i].environment))
            ELSE manual_entries
    IN  [k \in 1..Len(nonprod_manual) |-> Finding(tbl, nonprod_manual[k])]

\* cla1 (first listing) DRPlanAnalyzer.analyze_manual_nonprod_entries: returns
\* without a result when the manual_entry column is missing, and otherwise
\* adds the manual_entry_bool column to the DataFrame
analyze_manual_nonprod_entries ==
    /\ NextCall("analyze_manual_nonprod_entries")
    /\ IF "manual_entry" \notin columns
       THEN UNCHANGED <<results, columns>>
       ELSE /\ results' = ("manual_nonprod" :> Done(manual_nonprod_rows(data, columns)))
                              @@ results
            /\ columns' = columns \cup {"manual_entry_bool"}
    /\ calls' = Tail(calls)
    /\ UNCHANGED <<data, device_name, device_info>>
    /\ UNCHANGED <<header, error, files, stdin>>

(***************************************************************************)
(* Ordering and grouping (pandas groupby / sort_values / duplicated)       *)
(***************************************************************************)
\* the characters of the model in code-point order
CodePoints ==
    <<"\t", "\n", "\r", " ", "-", "0", "1", "2", "3", "4", "5", "6", "7", "8", "9",
      ":", "A","B","C","D","E","F","G","H","I","J","K","L","M",
      "N","O","P","Q","R","S","T","U","V","W","X","Y","Z", "_",
      "a","b","c","d","e","f","g","h","i","j","k","l","m",
      "n","o","p","q","r","s","t","u","v","w","x","y","z">>

ord(c) == CHOOSE i \in 1..Len(CodePoints) : CodePoints[i] = c

\* Python str comparison a < b
RECURSIVE StrLess(_, _)
StrLess(a, b) ==
    IF b = <<>> THEN FALSE
    ELSE IF a = <<>> THEN TRUE
    ELSE IF Head(a) = Head(b) THEN StrLess(Tail(a), Tail(b))
    ELSE ord(Head(a)) < ord(Head(b))

\* ordering of sort keys (tuples of cells), a missing cell after every text
CellLess(a, b) == notna(a) /\ (isna(b) \/ StrLess(a, b))

RECURSIVE KeyLess(_, _)
KeyLess(k1, k2) ==
    IF k1 = <<>> \/ k2 = <<>> THEN FALSE
    ELSE IF Head(k1) = Head(k2) THEN KeyLess(Tail(k1), Tail(k2))
    ELSE CellLess(Head(k1), Head(k2))

\* a set of keys as the sorted sequence of its members
RECURSIVE SortedKeys(_)
SortedKeys(K) ==
    IF K = {} THEN <<>>
    ELSE LET least == CHOOSE k \in K : \A other \in K \ {k} : KeyLess(k, other)
         IN  <<least>> \o SortedKeys(K \ {least})

HasNa(key) == \E n \in 1..Len(key) : isna(key[n])

\* DataFrame.groupby(by): the groups in sorted key order, rows whose key has
\* a missing cell dropped, the rows of a group in their original order;
\* key[i] is the tuple of the by-columns of row i
groupby(idxs, key) ==
    LET keys == SortedKeys({key[idxs[n]] : n \in {m \in 1..Len(idxs) : ~HasNa(key[idxs[m]])}})
    IN  [g \in 1..Len(keys) |->
            [key |-> keys[g], rows |-> SelectSeq(idxs, LAMBDA i : key[i] = keys[g])]]

\* Series.unique(): the distinct cells in order of first appearance
RECURSIVE unique(_)
unique(cells) ==
    IF cells = <<>> THEN <<>>
    ELSE LET front == unique(SubSeq(cells, 1, Len(cells) - 1))
             last == cells[Len(cells)]
         IN  IF \E n \in 1..Len(front) : front[n] = last THEN front
             ELSE Append(front, last)

\* Series.nunique(): the number of distinct cells, missing cells not counted
nunique(cells) == Cardinality({cells[n] : n \in 1..Len(cells)} \ {None})

\* sort_values(by): stable, missing cells last; key[i] is the sort key of
\* row i
RECURSIVE sort_values(_, _)
sort_values(idxs, key) ==
    IF idxs = <<>> THEN <<>>
    ELSE LET front == sort_values(SubSeq(idxs, 1, Len(idxs) - 1), key)
             last == idxs[Len(idxs)]
             stay == SelectSeq(front, LAMBDA i : ~KeyLess(key[last], key[i]))
             move == SelectSeq(front, LAMBDA i : KeyLess(key[last], key[i]))
         IN  stay \o <<last>> \o move

\* flatten a sequence of sequences
RECURSIVE concat(_)
concat(ss) == IF ss = <<>> THEN <<>> ELSE Head(ss) \o concat(Tail(ss))

(***************************************************************************)
(* p.py, first script: analyze_servicenow_data (one sheet)                 *)
(***************************************************************************)
\* s.split(sep): every part
RECURSIVE split(_, _)
split(s, sep) ==
    IF find(s, sep) = 0 THEN <<s>>
    ELSE <<SubSeq(s, 1, find(s, sep) - 1)>>
             \o split(SubSeq(s, find(s, sep) + Len(sep), Len(s)), sep)

\* sep.join(parts)
RECURSIVE join(_, _)
join(parts, sep) ==
    IF parts = <<>> THEN <<>>
    ELSE IF Len(parts) = 1 THEN parts[1]
    ELSE parts[1] \o sep \o join(Tail(parts), sep)

\* the sheet after the derived columns are added: name_prefix (kept in
\* name_type_prefix), device_core_name (kept in actual_device_name), and
\* plan cast to text
servicenow_data_df(tbl) ==
    [i \in 1..Len(tbl) |->
        [tbl[i] EXCEPT
            !.name_type_prefix = strip(split(astype_str(tbl[i].name), <<":">>)[1]),
            !.actual_device_name =
                strip(join(Tail(split(astype_str(tbl[i].name), <<":">>)), <<":">>)),
            !.plan = astype_str(tbl[i].plan)]]

\* df.groupby(by).filter(lambda x: len(x) > 1): the rows of the groups of
\* more than one row, in their original order
groupby_filter(idxs, key) ==
    LET groups == groupby(idxs, key)
    IN  SelectSeq(idxs,
            LAMBDA i : \E g \in 1..Len(groups) :
                          /\ Len(groups[g].rows) > 1
                          /\ \E n \in 1..Len(groups[g].rows) : groups[g].rows[n] = i)

servicenow_data_duplicates(tbl) ==
    LET df == servicenow_data_df(tbl)
        rows == groupby_filter(Index(df),
                    [i \in 1..Len(df) |->
                        <<df[i].plan, df[i].actual_device_name, df[i].type>>])
    IN  [k \in 1..Len(rows) |-> Finding(df, rows[k])]

servicenow_data_type_mismatch(tbl) ==
    LET df == servicenow_data_df(tbl)
        rows == SelectSeq(Index(df),
                    LAMBDA i : ~contains(lower(astype_str(df[i].type)),
                                         lower(df[i].name_type_prefix)))
    IN  [k \in 1..Len(rows) |-> Finding(df, rows[k])]

servicenow_data_manual(tbl, cols) ==
    IF "manual_entry" \in cols /\ "environment" \in cols
    THEN LET df == servicenow_data_df(tbl)
             rows == SelectSeq(Index(df),
                         LAMBDA i :
                            /\ lower(astype_str(df[i].manual_entry)) = <<"t","r","u","e">>
                            /\ lower(astype_str(df[i].environment)) \notin PRODUCTION_TOKENS_P)
         IN  [k \in 1..Len(rows) |-> Finding(df, rows[k])]
    ELSE <<>>

\* df.columns.str.strip().str.lower()
servicenow_data_header(hdr) == [k \in 1..Len(hdr) |-> lower(strip(hdr[k]))]

\* [col for col in df.columns if 'type' in col]
type_cols(hdr) ==
    SelectSeq(servicenow_data_header(hdr), LAMBDA col : contains(col, COL_type))

\* the columns of the sheet that analyze_servicenow_data reads, by the
\* canonical field they hold (sheets with at most one type column)
servicenow_data_columns(hdr) ==
    LET has(col) == \E k \in 1..Len(hdr) : servicenow_data_header(hdr)[k] = col
    IN  {f \in DOMAIN CanonicalName :
            \/ f = "name" /\ has(lower(COL_Device_Name))
            \/ f = "type" /\ Len(type_cols(hdr)) > 0
            \/ f = "plan" /\ has(COL_plan)
            \/ f = "environment" /\ has(lower(COL_Server_Environment))
            \/ f = "manual_entry" /\ has(lower(COL_Manual_Entry))}

\* the exception the sheet's processing stops with: type_cols[0] of an empty
\* list, df['device name'] or df['plan'] of a sheet without that column (the
\* required-column check itself only prints a warning)
servicenow_data_error(hdr) ==
    IF "type" \notin servicenow_data_columns(hdr) THEN "IndexError"
    ELSE IF "name" \notin servicenow_data_columns(hdr) THEN "KeyError"
    ELSE IF "plan" \notin servicenow_data_columns(hdr) THEN "KeyError"
    ELSE NoError

\* p.py analyze_servicenow_data: the three record sets written for the
\* sheet; an exception is not caught and ends the run before anything is
\* written
analyze_servicenow_data ==
    /\ NextCall("analyze_servicenow_data")
    /\ IF servicenow_data_error(header) # NoError
       THEN /\ error' = servicenow_data_error(header)
            /\ calls' = <<>>
            /\ UNCHANGED results
       ELSE /\ results' =
                  ("Duplicate Records" :> Done(servicenow_data_duplicates(data)))
                  @@ ("Type Mismatch Records" :> Done(servicenow_data_type_mismatch(data)))
                  @@ ("Manual Entry Non-Prod Records" :>
                          Done(servicenow_data_manual(data, servicenow_data_columns(header))))
                  @@ results
            /\ calls' = Tail(calls)
            /\ UNCHANGED error
    /\ UNCHANGED <<data, columns, device_name, device_info, header, files, stdin>>

(***************************************************************************)
(* p.py, second script: analyze_servicenow_extract (one sheet)             *)
(***************************************************************************)
\* Series.str.strip().str.lower(): a missing cell stays missing
strip_lower(x) == IF isna(x) THEN None ELSE lower(strip(x))

\* the first 'type' column is taken when one of its cells contains 'server'
real_type_col(tbl) ==
    \E i \in 1..Len(tbl) :
        notna(tbl[i].type) /\ contains(lower(tbl[i].type), <<"s","e","r","v","e","r">>)

\* the text after the last ':' of the name, kept in actual_device_name
parsed_name(name) ==
    IF isna(name) THEN None
    ELSE strip(split(name, <<":">>)[Len(split(name, <<":">>))])

\* the sheet after normalisation, with parsed_name added
servicenow_extract_df(tbl, cols) ==
    [i \in 1..Len(tbl) |->
        [tbl[i] EXCEPT
            !.type = strip_lower(tbl[i].type),
            !.name = strip_lower(tbl[i].name),
            !.plan = strip_lower(tbl[i].plan),
            !.environment = strip_lower(tbl[i].environment),
            !.manual_entry = strip_lower(tbl[i].manual_entry),
            !.actual_device_name = parsed_name(strip_lower(tbl[i].name))]]

\* type + ':' + parsed_name + ':' + plan, missing when a part is missing
unique_key(row) ==
    IF isna(row.type) \/ isna(row.actual_device_name) \/ isna(row.plan) THEN None
    ELSE row.type \o <<":">> \o row.actual_device_name \o <<":">> \o row.plan

\* df[df.duplicated('unique_key', keep=False)].sort_values(by=[plan, parsed_name])
servicenow_extract_duplicates(df) ==
    LET dup == SelectSeq(Index(df),
                   LAMBDA i : \E j \in 1..Len(df) :
                                 j # i /\ unique_key(df[j]) = unique_key(df[i]))
        key == [i \in 1..Len(df) |-> <<df[i].plan, df[i].actual_device_name>>]
        rows == sort_values(dup, key)
    IN  [k \in 1..Len(rows) |->
            Finding(df, rows[k]) @@ [issue |-> "Duplicate device within same plan"]]

servicenow_extract_manual(df, cols) ==
    IF "manual_entry" \in cols /\ "environment" \in cols
    THEN LET rows == SelectSeq(Index(df),
                         LAMBDA i :
                            /\ df[i].manual_entry = <<"t","r","u","e">>
                            /\ \/ isna(df[i].environment)
                               \/ ~contains(df[i].environment, <<"p","r","o","d">>))
         IN  [k \in 1..Len(rows) |->
                 Finding(df, rows[k])
                     @@ [issue |-> "Manual entry in non-production or blank env"]]
    ELSE <<>>

\* what the script can write for the sheet.  The sheet is skipped (nothing
\* written for it) without a type column holding 'server'.  `~` applied to
\* str.contains over a column with a missing cell raises on an object column
\* and masks the missing cell on a string column, depending on the pandas
\* build: both outcomes are possible.
servicenow_extract_outcomes(tbl, cols) ==
    IF ~real_type_col(tbl) THEN {Done(<<>>)}
    ELSE LET df == servicenow_extract_df(tbl, cols)
             final_df == servicenow_extract_duplicates(df)
                             \o servicenow_extract_manual(df, cols)
         IN  IF /\ "manual_entry" \in cols /\ "environment" \in cols
                /\ \E i \in 1..Len(tbl) : isna(tbl[i].environment)
             THEN {Done(final_df), Raised}
             ELSE {Done(final_df)}

\* p.py analyze_servicenow_extract
analyze_servicenow_extract ==
    /\ NextCall("analyze_servicenow_extract")
    /\ \E final_df \in servicenow_extract_outcomes(data, columns) :
          results' = ("final_df" :> final_df) @@ results
    /\ calls' = Tail(calls)
    /\ UNCHANGED <<data, columns, device_name, device_info>>
    /\ UNCHANGED <<header, error, files, stdin>>

\* the loop over the sheets of an Excel file, one sheet: the sheet is
\* skipped ('continue', nothing appended to all_results) without a type
\* column holding 'server' or without a name or a plan column; otherwise
\* its findings, or the exception that ends the run
servicenow_extract_sheet(sheet) ==
    IF \/ ~real_type_col(sheet.rows)
       \/ "name" \notin sheet.columns
       \/ "plan" \notin sheet.columns
    THEN {[skipped |-> TRUE, raised |-> FALSE, rows |-> <<>>, columns |-> {}]}
    ELSE {[skipped |-> FALSE, raised |-> outcome.raised,
           rows |-> [k \in 1..Len(outcome.rows) |->
                        outcome.rows[k] @@ [sheet_name |-> sheet.sheet_name]],
           columns |-> {"plan", "name", "type", "parsed_name", "issue", "sheet_name"}
                          \cup IF {"manual_entry", "environment"} \subseteq sheet.columns
                               THEN {"environment", "manual_entry"} ELSE {}] :
            outcome \in servicenow_extract_outcomes(sheet.rows, sheet.columns)}

\* final_df: pd.concat(all_results) of the sheets that were not skipped, an
\* empty DataFrame when all were; nothing when a sheet raised
servicenow_extract_final_df(sheet_results) ==
    LET all_results == SelectSeq(sheet_results, LAMBDA sheet_result : ~sheet_result.skipped)
    IN  IF \E n \in 1..Len(sheet_results) : sheet_results[n].raised
        THEN [raised |-> TRUE, columns |-> {}, rows |-> <<>>]
        ELSE [raised |-> FALSE,
              columns |-> UNION {all_results[n].columns : n \in 1..Len(all_results)},
              rows |-> concat([n \in 1..Len(all_results) |-> all_results[n].rows])]

\* what the script can write for the sheets of an Excel file
servicenow_extract_files(sheets) ==
    {servicenow_extract_final_df(sheet_results) :
        sheet_results \in {f \in [1..Len(sheets) ->
                                     UNION {servicenow_extract_sheet(sheets[n]) :
                                               n \in 1..Len(sheets)}] :
                               \A n \in 1..Len(sheets) :
                                   f[n] \in servicenow_extract_sheet(sheets[n])}}

\* p.py analyze_servicenow_extract on an Excel file of several sheets
analyze_servicenow_extract_excel ==
    /\ NextCall("analyze_servicenow_extract excel")
    /\ \E final_df \in servicenow_extract_files(files.sheets) :
          results' = ("final_df" :> final_df) @@ results
    /\ calls' = Tail(calls)
    /\ UNCHANGED <<data, columns, device_name, device_info, header, error, files, stdin>>

(***************************************************************************)
(* cla3oct19.py, first script: duplicate analyses 1, 2 and 3               *)
(***************************************************************************)
\* a column of a table restricted to some rows
Cells(tbl, rows, col) == [n \in 1..Len(rows) |-> tbl[rows[n]][col]]

\* data[data['plan'] == plan]: a missing plan equals nothing
plan_rows(tbl, idxs, plan) ==
    SelectSeq(idxs, LAMBDA i : notna(plan) /\ notna(tbl[i].plan) /\ tbl[i].plan = plan)

\* the manual entries found without putting the value in upper case
manual_entries_as_written(tbl, cols, rows) ==
    IF "manual_entry" \in cols
    THEN Cells(tbl, SelectSeq(rows,
                       LAMBDA i : astype_str(tbl[i].manual_entry) \in MANUAL_UPPER),
               "name")
    ELSE <<>>

\* group[group['manual_entry'] ... isin(['TRUE', 'T', '1', 'YES'])]['name'].tolist()
manual_entries(tbl, cols, rows) ==
    IF "manual_entry" \in cols
    THEN Cells(tbl, SelectSeq(rows,
                       LAMBDA i : upper(astype_str(tbl[i].manual_entry)) \in MANUAL_UPPER),
               "name")
    ELSE <<>>

\* row['name'] in manual_entries
is_manual_entry(name, names) ==
    IF \E n \in 1..Len(names) : names[n] = name THEN "Yes" ELSE "No"

\* str.split(): the words between runs of whitespace
RECURSIVE words(_)
words(s) ==
    LET t == lstrip(s)
        ends == {n \in 1..Len(t) : IsSpace(t[n])}
        stop == IF ends = {} THEN Len(t) + 1
                ELSE CHOOSE n \in ends : \A m \in ends : n <= m
    IN  IF t = <<>> THEN <<>>
        ELSE <<SubSeq(t, 1, stop - 1)>> \o words(SubSeq(t, stop, Len(t)))

\* analysis 1: the prefix is neither contained in the type nor shares a word
\* with it
type_mismatch(prefix, device_type) ==
    IF notna(prefix)
       /\ ~contains(upper(astype_str(device_type)), upper(prefix))
       /\ ~\E n \in 1..Len(words(upper(prefix))) :
              contains(upper(astype_str(device_type)), words(upper(prefix))[n])
    THEN "Yes" ELSE "No"

\* analysis 1, 'Determine duplicate type'
name_type_duplicate_type(tbl, rows) ==
    IF nunique(Cells(tbl, rows, "name")) = 1 THEN "Exact Duplicate"
    ELSE IF nunique(Cells(tbl, rows, "name_type_prefix")) > 1 THEN "Mismatch Duplicate"
    ELSE "Other Duplicate"

\* the count of the other records of the group instead of the group's size
duplicate_count_of_others(group) == Len(group.rows) - 1

\* the number reported as 'Duplicate Count'
duplicate_count(group) == Len(group.rows)

\* analysis 1: the findings of one group
name_type_group_findings(tbl, cols, plan, group) ==
    IF Len(group.rows) > 1
    THEN [n \in 1..Len(group.rows) |->
            LET row == tbl[group.rows[n]]
            IN  [idx |-> group.rows[n],
                 Plan |-> plan,
                 Device_Name |-> group.key[1],
                 Type |-> group.key[2],
                 Full_Name |-> row.name,
                 Name_Type_Prefix |-> row.name_type_prefix,
                 Duplicate_Count |-> duplicate_count(group),
                 Duplicate_Type |-> name_type_duplicate_type(tbl, group.rows),
                 Is_Manual_Entry |->
                     is_manual_entry(row.name, manual_entries(tbl, cols, group.rows)),
                 Type_Mismatch |-> type_mismatch(row.name_type_prefix, group.key[2])]]
    ELSE <<>>

\* the rows of one plan grouped by the given key columns
plan_groups(tbl, idxs, plan, by) ==
    groupby(plan_rows(tbl, idxs, plan),
            [i \in 1..Len(tbl) |-> [c \in 1..Len(by) |-> tbl[i][by[c]]]])

\* analysis 1: for plan in data['plan'].unique(), for each group of
\* plan_data.groupby(['actual_device_name', 'type'])
name_type_duplicates(tbl, cols) ==
    LET plans == unique(Cells(tbl, Index(tbl), "plan"))
    IN  concat([p \in 1..Len(plans) |->
            LET groups == plan_groups(tbl, Index(tbl), plans[p],
                                      <<"actual_device_name", "type">>)
            IN  concat([g \in 1..Len(groups) |->
                    name_type_group_findings(tbl, cols, plans[p], groups[g])])])

\* cla3oct19.py DRPlanAnalyzer.analysis_1_name_type_duplicates
analysis_1_name_type_duplicates ==
    /\ NextCall("analysis_1_name_type_duplicates")
    /\ results' = ("analysis_1" :> Done(name_type_duplicates(data, columns))) @@ results
    /\ calls' = Tail(calls)
    /\ UNCHANGED <<data, columns, device_name, device_info>>
    /\ UNCHANGED <<header, error, files, stdin>>

\* data[data['serial_number'].notna() & (data['serial_number'] != '')]
data_with_serial(tbl) ==
    SelectSeq(Index(tbl),
        LAMBDA i : notna(tbl[i].serial_number) /\ tbl[i].serial_number # <<>>)

\* analysis 2, 'Determine duplicate type'
serial_type_duplicate_type(tbl, rows) ==
    IF nunique(Cells(tbl, rows, "name")) = 1 THEN "Exact Duplicate"
    ELSE IF nunique(Cells(tbl, rows, "actual_device_name")) = 1 THEN "Mismatch Duplicate"
    ELSE "Other Duplicate"

\* analysis 2 reporting the groups of a single record too
serial_type_group_findings_of_any_size(tbl, cols, plan, group) ==
    IF Len(group.rows) >= 1
    THEN [n \in 1..Len(group.rows) |->
            LET row == tbl[group.rows[n]]
            IN  [idx |-> group.rows[n],
                 Plan |-> plan,
                 Serial_Number |-> group.key[1],
                 Type |-> group.key[2],
                 Device_Name |-> row.name,
                 Actual_Device_Name |-> row.actual_device_name,
                 Name_Type_Prefix |-> row.name_type_prefix,
                 Duplicate_Count |-> duplicate_count(group),
                 Duplicate_Type |-> serial_type_duplicate_type(tbl, group.rows),
                 Is_Manual_Entry |->
                     is_manual_entry(row.name, manual_entries(tbl, cols, group.rows))]]
    ELSE <<>>

\* analysis 2: the findings of one group
serial_type_group_findings(tbl, cols, plan, group) ==
    IF Len(group.rows) > 1
    THEN [n \in 1..Len(group.rows) |->
            LET row == tbl[group.rows[n]]
            IN  [idx |-> group.rows[n],
                 Plan |-> plan,
                 Serial_Number |-> group.key[1],
                 Type |-> group.key[2],
                 Device_Name |-> row.name,
                 Actual_Device_Name |-> row.actual_device_name,
                 Name_Type_Prefix |-> row.name_type_prefix,
                 Duplicate_Count |-> duplicate_count(group),
                 Duplicate_Type |-> serial_type_duplicate_type(tbl, group.rows),
                 Is_Manual_Entry |->
                     is_manual_entry(row.name, manual_entries(tbl, cols, group.rows))]]
    ELSE <<>>

\* analysis 2: plans of the rows with a serial number, groups of
\* plan_data.groupby(['serial_number', 'type'])
serial_type_duplicates(tbl, cols) ==
    IF "serial_number" \notin cols THEN <<>>
    ELSE LET with_serial == data_with_serial(tbl)
             plans == unique(Cells(tbl, with_serial, "plan"))
         IN  concat([p \in 1..Len(plans) |->
                 LET groups == plan_groups(tbl, with_serial, plans[p],
                                           <<"serial_number", "type">>)
                 IN  concat([g \in 1..Len(groups) |->
                         serial_type_group_findings(tbl, cols, plans[p], groups[g])])])

\* cla3oct19.py DRPlanAnalyzer.analysis_2_serial_type_duplicates
analysis_2_serial_type_duplicates ==
    /\ NextCall("analysis_2_serial_type_duplicates")
    /\ results' = ("analysis_2" :> Done(serial_type_duplicates(data, columns))) @@ results
    /\ calls' = Tail(calls)
    /\ UNCHANGED <<data, columns, device_name, device_info>>
    /\ UNCHANGED <<header, error, files, stdin>>

\* analysis 3 classifying by the full names, as analysis 2 does
future_serial_duplicate_type_by_full_name(tbl, rows) ==
    IF nunique(Cells(tbl, rows, "name")) = 1 THEN "Exact Duplicate"
    ELSE IF nunique(Cells(tbl, rows, "type")) > 1 THEN "Type Conflict"
    ELSE "Name Variation"

\* analysis 3 looking at the names before the types
future_serial_duplicate_type_names_first(tbl, rows) ==
    IF nunique(Cells(tbl, rows, "actual_device_name")) = 1 THEN "Exact Duplicate"
    ELSE IF nunique(Cells(tbl, rows, "type")) > 1 THEN "Type Conflict"
    ELSE "Name Variation"

\* analysis 3, 'Determine duplicate type'
future_serial_duplicate_type(tbl, rows) ==
    IF nunique(Cells(tbl, rows, "type")) = 1
       /\ nunique(Cells(tbl, rows, "actual_device_name")) = 1
    THEN "Exact Duplicate"
    ELSE IF nunique(Cells(tbl, rows, "type")) > 1 THEN "Type Conflict"
    ELSE "Name Variation"

\* analysis 3: the findings of one group
future_serial_group_findings(tbl, cols, plan, group) ==
    IF Len(group.rows) > 1
    THEN [n \in 1..Len(group.rows) |->
            LET row == tbl[group.rows[n]]
            IN  [idx |-> group.rows[n],
                 Plan |-> plan,
                 Serial_Number |-> group.key[1],
                 Device_Name_Current |-> row.name,
                 Device_Name_Future |-> row.actual_device_name,
                 Type |-> row.type,
                 Duplicate_Count |-> duplicate_count(group),
                 Duplicate_Type |-> future_serial_duplicate_type(tbl, group.rows),
                 Is_Manual_Entry |->
                     is_manual_entry(row.name, manual_entries(tbl, cols, group.rows))]]
    ELSE <<>>

\* analysis 3: plans of the rows with a serial number, groups of
\* plan_data.groupby('serial_number')
future_serial_duplicates(tbl, cols) ==
    IF "serial_number" \notin cols THEN <<>>
    ELSE LET with_serial == data_with_serial(tbl)
             plans == unique(Cells(tbl, with_serial, "plan"))
         IN  concat([p \in 1..Len(plans) |->
                 LET groups == plan_groups(tbl, with_serial, plans[p], <<"serial_number">>)
                 IN  concat([g \in 1..Len(groups) |->
                         future_serial_group_findings(tbl, cols, plans[p], groups[g])])])

\* cla3oct19.py DRPlanAnalyzer.analysis_3_future_serial_duplicates
analysis_3_future_serial_duplicates ==
    /\ NextCall("analysis_3_future_serial_duplicates")
    /\ results' = ("analysis_3" :> Done(future_serial_duplicates(data, columns))) @@ results
    /\ calls' = Tail(calls)
    /\ UNCHANGED <<data, columns, device_name, device_info>>
    /\ UNCHANGED <<header, error, files, stdin>>

(***************************************************************************)
(* cla3oct19.py, first script: analysis 6                                  *)
(***************************************************************************)
\* the distinct cells of the type column of the group, a missing one counted
unique_types_with_missing(tbl, rows) == Len(unique(Cells(tbl, rows, "type")))

\* unique_types = group['type'].nunique()
unique_types(tbl, rows) == nunique(Cells(tbl, rows, "type"))

\* analysis 6: the findings of one group of plan_data.groupby('serial_number')
same_serial_group_findings(tbl, plan, group) ==
    IF unique_types(tbl, group.rows) > 1
    THEN LET types_list == unique(Cells(tbl, group.rows, "type"))
         IN  [n \in 1..Len(group.rows) |->
                 LET row == tbl[group.rows[n]]
                 IN  [idx |-> group.rows[n],
                      Plan |-> plan,
                      Serial_Number |-> group.key[1],
                      Device_Name |-> row.name,
                      Actual_Device_Name |-> row.actual_device_name,
                      Type |-> row.type,
                      All_Types_for_Serial |->
                          join([k \in 1..Len(types_list) |-> astype_str(types_list[k])],
                               <<",", " ">>),
                      Type_Count |-> unique_types(tbl, group.rows)]]
    ELSE <<>>

\* analysis 6: plans of the rows with a serial number, groups of
\* plan_data.groupby('serial_number')
same_serial_different_type(tbl, cols) ==
    IF "serial_number" \notin cols THEN <<>>
    ELSE LET with_serial == data_with_serial(tbl)
             plans == unique(Cells(tbl, with_serial, "plan"))
         IN  concat([p \in 1..Len(plans) |->
                 LET groups == plan_groups(tbl, with_serial, plans[p], <<"serial_number">>)
                 IN  concat([g \in 1..Len(groups) |->
                         same_serial_group_findings(tbl, plans[p], groups[g])])])

\* cla3oct19.py DRPlanAnalyzer.analysis_6_same_serial_different_type
analysis_6_same_serial_different_type ==
    /\ NextCall("analysis_6_same_serial_different_type")
    /\ results' = ("analysis_6" :> Done(same_serial_different_type(data, columns)))
                      @@ results
    /\ calls' = Tail(calls)
    /\ UNCHANGED <<data, columns, device_name, device_info>>
    /\ UNCHANGED <<header, error, files, stdin>>

(***************************************************************************)
(* cla3oct19.py, second script (before/after): duplicates of the BEFORE    *)
(* file; data holds before_data                                            *)
(***************************************************************************)
\* the fields added to every finding of the BEFORE analyses: without a
\* plan_invalid column 'Plan Invalid' is 'Unknown'
before_fields == [Plan_Invalid |-> "Unknown"]

\* analyze_before_duplicates: groups of plan_data.groupby(['actual_device_name', 'type'])
before_duplicates(tbl, cols) ==
    LET plans == unique(Cells(tbl, Index(tbl), "plan"))
    IN  concat([p \in 1..Len(plans) |->
            LET groups == plan_groups(tbl, Index(tbl), plans[p],
                                      <<"actual_device_name", "type">>)
            IN  concat([g \in 1..Len(groups) |->
                    LET found == name_type_group_findings(tbl, cols, plans[p], groups[g])
                    IN  [n \in 1..Len(found) |->
                            found[n] @@ before_fields
                                     @@ [Has_Critical_Attributes |-> "No"]]])])

\* cla3oct19.py (before/after) DRPlanAnalyzer.analyze_before_duplicates
analyze_before_duplicates ==
    /\ NextCall("analyze_before_duplicates")
    /\ results' = ("before_dups" :> Done(before_duplicates(data, columns))) @@ results
    /\ calls' = Tail(calls)
    /\ UNCHANGED <<data, columns, device_name, device_info>>
    /\ UNCHANGED <<header, error, files, stdin>>

\* analyze_serial_duplicates_before: groups of
\* plan_data.groupby(['serial_number', 'type']) over the rows with a serial
serial_duplicates_before(tbl, cols) ==
    IF "serial_number" \notin cols THEN <<>>
    ELSE LET with_serial == data_with_serial(tbl)
             plans == unique(Cells(tbl, with_serial, "plan"))
         IN  concat([p \in 1..Len(plans) |->
                 LET groups == plan_groups(tbl, with_serial, plans[p],
                                           <<"serial_number", "type">>)
                 IN  concat([g \in 1..Len(groups) |->
                         LET found == serial_type_group_findings(tbl, cols, plans[p],
                                                                 groups[g])
                         IN  [n \in 1..Len(found) |-> found[n] @@ before_fields]])])

\* cla3oct19.py (before/after) DRPlanAnalyzer.analyze_serial_duplicates_before
analyze_serial_duplicates_before ==
    /\ NextCall("analyze_serial_duplicates_before")
    /\ results' = ("serial_dups" :> Done(serial_duplicates_before(data, columns)))
                      @@ results
    /\ calls' = Tail(calls)
    /\ UNCHANGED <<data, columns, device_name, device_info>>
    /\ UNCHANGED <<header, error, files, stdin>>

(***************************************************************************)
(* cla3oct19.py, second script (before/after): attribute transfer risk     *)
(***************************************************************************)
critical_attributes ==
    <<"dr_device", "global_load_balancer", "nas", "comments", "failover_strategy">>

\* row.get(attr, ''): the cell, or '' when the table has no such column
get(row, cols, attr) == IF attr \in cols THEN row[attr] ELSE <<>>

\* pd.notna(val) and str(val).strip() != ''
has_val(val) == notna(val) /\ strip(val) # <<>>

\* is_match: the prefix, as text and in upper case, is contained in the type
\* or one of its words is
is_match(prefix, device_type) ==
    LET prefix_upper == upper(str_none(prefix))
        type_upper == upper(device_type)
    IN  \/ contains(type_upper, prefix_upper)
        \/ \E n \in 1..Len(words(prefix_upper)) :
               contains(type_upper, words(prefix_upper)[n])

\* the members of the group whose prefix matches the type
matching_cis(tbl, group) ==
    SelectSeq(group.rows, LAMBDA i : is_match(tbl[i].name_type_prefix, group.key[2]))

\* the first member whatever its prefix
correct_ci_first_member(tbl, group) == group.rows[1]

\* correct_ci after the loop over the group and the fallback: the first
\* matching member, or group.iloc[0] when none matches
correct_ci(tbl, group) ==
    IF matching_cis(tbl, group) # <<>> THEN matching_cis(tbl, group)[1]
    ELSE group.rows[1]

\* mismatch_cis: the members that do not match; when none matches, all
\* members but the first
mismatch_cis(tbl, group) ==
    IF matching_cis(tbl, group) # <<>>
    THEN SelectSeq(group.rows,
                   LAMBDA i : ~is_match(tbl[i].name_type_prefix, group.key[2]))
    ELSE Tail(group.rows)

\* transfer_needed of one mismatch CI: the attributes it has a value for
\* and the correct CI has not
transfer_needed(tbl, cols, mismatch, correct) ==
    LET attrs == SelectSeq(critical_attributes,
                     LAMBDA attr : /\ has_val(get(tbl[mismatch], cols, attr))
                                   /\ ~has_val(get(tbl[correct], cols, attr)))
    IN  [n \in 1..Len(attrs) |->
            [attr |-> attrs[n], mismatch_val |-> get(tbl[mismatch], cols, attrs[n])]]

\* transfer_conflict of one mismatch CI: the attributes both have a value
\* for, the two values different
transfer_conflict(tbl, cols, mismatch, correct) ==
    LET attrs == SelectSeq(critical_attributes,
                     LAMBDA attr : /\ has_val(get(tbl[mismatch], cols, attr))
                                   /\ has_val(get(tbl[correct], cols, attr))
                                   /\ get(tbl[mismatch], cols, attr)
                                         # get(tbl[correct], cols, attr))
    IN  [n \in 1..Len(attrs) |->
            [attr |-> attrs[n], mismatch_val |-> get(tbl[mismatch], cols, attrs[n]),
             correct_val |-> get(tbl[correct], cols, attrs[n])]]

\* the chain with the test for entries to transfer put first
risk_level_transfer_first(needed, conflict) ==
    IF needed # <<>> THEN "Transfer Needed"
    ELSE IF conflict # <<>> THEN "Conflict - Data Loss"
    ELSE "None"

\* risk_level, the if / elif chain as written
risk_level(needed, conflict) ==
    IF needed # <<>> /\ conflict = <<>> THEN "Transfer Needed"
    ELSE IF conflict # <<>> THEN "Conflict - Data Loss"
    ELSE IF needed # <<>> /\ conflict # <<>> THEN "Partial Transfer with Conflict"
    ELSE "None"

\* the findings of one group: one for each mismatch CI with something to
\* transfer or a conflict
transfer_risk_group_findings(tbl, cols, plan, group) ==
    IF Len(group.rows) > 1
    THEN LET correct == correct_ci(tbl, group)
             at_risk == SelectSeq(mismatch_cis(tbl, group),
                            LAMBDA i : \/ transfer_needed(tbl, cols, i, correct) # <<>>
                                       \/ transfer_conflict(tbl, cols, i, correct) # <<>>)
         IN  [n \in 1..Len(at_risk) |->
                 LET needed == transfer_needed(tbl, cols, at_risk[n], correct)
                     conflict == transfer_conflict(tbl, cols, at_risk[n], correct)
                 IN  [idx |-> at_risk[n],
                      Plan |-> plan,
                      Device_Name |-> group.key[1],
                      Type |-> group.key[2],
                      Mismatch_CI_Name |-> tbl[at_risk[n]].name,
                      Correct_CI_Name |-> tbl[correct].name,
                      correct_idx |-> correct,
                      Risk_Level |-> risk_level(needed, conflict),
                      Attributes_to_Transfer |-> needed,
                      Attribute_Conflicts |-> conflict,
                      Action_Required |->
                          IF needed # <<>> THEN "Transfer attributes before deletion"
                          ELSE "Review conflicts",
                      Mismatch_Serial |-> get(tbl[at_risk[n]], cols, "serial_number"),
                      Correct_Serial |-> get(tbl[correct], cols, "serial_number")]
                     @@ before_fields]
    ELSE <<>>

\* for plan in before_data['plan'].unique(), for each group of
\* plan_data.groupby(['actual_device_name', 'type'])
attribute_transfer_risk(tbl, cols) ==
    LET plans == unique(Cells(tbl, Index(tbl), "plan"))
    IN  concat([p \in 1..Len(plans) |->
            LET groups == plan_groups(tbl, Index(tbl), plans[p],
                                      <<"actual_device_name", "type">>)
            IN  concat([g \in 1..Len(groups) |->
                    transfer_risk_group_findings(tbl, cols, plans[p], groups[g])])])

\* the values correct_ci and mismatch_cis have after the pass over each
\* group of more than one record, group after group
transfer_risk_cis(tbl) ==
    LET plans == unique(Cells(tbl, Index(tbl), "plan"))
    IN  concat([p \in 1..Len(plans) |->
            LET groups == plan_groups(tbl, Index(tbl), plans[p],
                                      <<"actual_device_name", "type">>)
                large == SelectSeq(groups, LAMBDA group : Len(group.rows) > 1)
            IN  [g \in 1..Len(large) |->
                    [plan |-> plans[p], key |-> large[g].key, rows |-> large[g].rows,
                     correct_ci |-> correct_ci(tbl, large[g]),
                     mismatch_cis |-> mismatch_cis(tbl, large[g])]]])

\* the values transfer_needed, transfer_conflict and risk_level have at the
\* end of the pass over each mismatch CI, one after the other
transfer_risk_levels(tbl, cols) ==
    LET cis == transfer_risk_cis(tbl)
    IN  concat([g \in 1..Len(cis) |->
            [n \in 1..Len(cis[g].mismatch_cis) |->
                LET needed == transfer_needed(tbl, cols, cis[g].mismatch_cis[n],
                                              cis[g].correct_ci)
                    conflict == transfer_conflict(tbl, cols, cis[g].mismatch_cis[n],
                                                  cis[g].correct_ci)
                IN  [idx |-> cis[g].mismatch_cis[n],
                     transfer_needed |-> needed,
                     transfer_conflict |-> conflict,
                     risk_level |-> risk_level(needed, conflict)]]])

\* cla3oct19.py (before/after) DRPlanAnalyzer.analyze_attribute_transfer_risk
analyze_attribute_transfer_risk ==
    /\ NextCall("analyze_attribute_transfer_risk")
    /\ results' = ("attr_risk" :> Done(attribute_transfer_risk(data, columns)))
                      @@ ("attr_risk cis" :> transfer_risk_cis(data))
                      @@ ("attr_risk levels" :> transfer_risk_levels(data, columns))
                      @@ results
    /\ calls' = Tail(calls)
    /\ UNCHANGED <<data, columns, device_name, device_info>>
    /\ UNCHANGED <<header, error, files, stdin>>

(***************************************************************************)
(* cla1, first listing: analyze_duplicates_current_format                  *)
(* (device_name, ci_type, plan_name are the columns name, type, plan;      *)
(* name_prefix and actual_name are kept in name_type_prefix and            *)
(* actual_device_name)                                                     *)
(***************************************************************************)
\* the type_mismatch flag the row loop sets
current_type_mismatch(type, prefix) ==
    LET ci_type == strip(lower(astype_str(type)))
        name_prefix == strip(lower(str_none(prefix)))
    IN  /\ name_prefix # <<>> /\ ci_type # <<>>
        /\ ~contains(name_prefix, ci_type)
        /\ ~contains(ci_type, name_prefix)

\* the DataFrame after name_prefix, actual_name and type_mismatch are added
current_format_df(tbl) ==
    [i \in 1..Len(tbl) |->
        [tbl[i] EXCEPT
            !.name_type_prefix = extract_device_info_a(tbl[i].name)[1],
            !.actual_device_name = extract_device_info_a(tbl[i].name)[2],
            !.type_mismatch =
                current_type_mismatch(tbl[i].type, extract_device_info_a(tbl[i].name)[1])]]

\* the records of one actual name within one plan
current_device_records(df, plan, actual_name) ==
    [key |-> <<actual_name>>,
     rows |-> SelectSeq(plan_rows(df, Index(df), plan),
                  LAMBDA i : notna(df[i].actual_device_name)
                             /\ df[i].actual_device_name = actual_name)]

current_group_findings(df, plan, group) ==
    IF \/ Len(group.rows) > 1
       \/ nunique(Cells(df, group.rows, "type")) > 1
       \/ nunique(Cells(df, group.rows, "name_type_prefix")) > 1
    THEN [n \in 1..Len(group.rows) |->
            LET record == df[group.rows[n]]
            IN  [idx |-> group.rows[n],
                 plan_name |-> plan,
                 device_name |-> record.name,
                 actual_name |-> record.actual_device_name,
                 name_prefix |-> record.name_type_prefix,
                 ci_type |-> record.type,
                 type_mismatch |-> record.type_mismatch,
                 duplicate_count |-> duplicate_count(group)]]
    ELSE <<>>

\* for plan in plan_name.unique(), for actual_name in plan_data.actual_name.unique(),
\* missing plans and missing names skipped
current_duplicates(df, cols) ==
    IF "plan" \notin cols THEN <<>>
    ELSE LET plans == SelectSeq(unique(Cells(df, Index(df), "plan")), notna)
         IN  concat([p \in 1..Len(plans) |->
                 LET names == SelectSeq(
                                  unique(Cells(df, plan_rows(df, Index(df), plans[p]),
                                               "actual_device_name")), notna)
                 IN  concat([a \in 1..Len(names) |->
                         current_group_findings(df, plans[p],
                             current_device_records(df, plans[p], names[a]))])])

\* cla1 (first listing) DRPlanAnalyzer.analyze_duplicates_current_format:
\* returns without a result when the name or type column is missing, and
\* otherwise adds three columns to the DataFrame in place
analyze_duplicates_current_format ==
    /\ NextCall("analyze_duplicates_current_format")
    /\ IF "name" \notin columns \/ "type" \notin columns
       THEN UNCHANGED <<data, columns, results>>
       ELSE /\ data' = current_format_df(data)
            /\ columns' = columns \cup {"name_type_prefix", "actual_device_name",
                                        "type_mismatch"}
            /\ results' = ("current_duplicates" :>
                               Done(current_duplicates(current_format_df(data), columns)))
                              @@ results
    /\ calls' = Tail(calls)
    /\ UNCHANGED <<device_name, device_info>>
    /\ UNCHANGED <<header, error, files, stdin>>

(***************************************************************************)
(* Specification of the policy check: small tables, each script run once   *)
(***************************************************************************)
MaxPolicyRows == 2

DB_S1 == <<"D","B",":","s","1">>

PLAN1 == <<"P","1">>

SERVER == <<"S","e","r","v","e","r">>

DATABASE == <<"D","a","t","a","b","a","s","e">>

ManualValues == {<<"t","r","u","e">>, <<"Y","E","S">>, <<"1">>, <<"T">>, <<"n","o">>}

EnvValues ==
    {<<"p","r","d">>, <<"P","r","o","d">>, <<"n","o","n","-","p","r","o","d">>,
     <<"d","e","v">>, <<>>, None}

AllColumns == {"name", "type", "plan", "serial_number", "manual_entry", "environment"}

\* a cell of a column that the table does not have is missing
PolicyRows(cols) ==
    {Row(DB_S1, t, PLAN1, None, m, e) :
        t \in {SERVER, DATABASE},
        m \in IF "manual_entry" \in cols THEN ManualValues ELSE {None},
        e \in IF "environment" \in cols THEN EnvValues ELSE {None}}

PolicyScripts ==
    {<<"extract_device_info", "analysis_4_manual_non_production">>,
     <<"analyze_manual_nonprod_entries">>,
     <<"analyze_servicenow_data">>,
     <<"analyze_servicenow_extract">>}

InitPolicy ==
    /\ columns \in {AllColumns \ ({"serial_number"} \cup drop) :
                       drop \in {{}, {"environment"}, {"manual_entry"}}}
    /\ \E n \in 1..MaxPolicyRows : data \in [1..n -> PolicyRows(columns)]
    /\ calls \in PolicyScripts
    /\ results = NoResults
    /\ device_name = None
    /\ device_info = NoDeviceInfo
    /\ header = LoadedHeader(calls, columns)
    /\ error = NoError
    /\ files = NoFiles
    /\ stdin = <<>>

NextPolicy ==
    \/ extract_device_info
    \/ analysis_4_manual_non_production
    \/ analyze_manual_nonprod_entries
    \/ analyze_servicenow_data
    \/ analyze_servicenow_extract

SpecPolicy == InitPolicy /\ [][NextPolicy]_vars

(***************************************************************************)
(* Specification of the duplicate analyses: small tables, each script run  *)
(* once                                                                    *)
(***************************************************************************)
DATABASE_S1 == <<"D","a","t","a","b","a","s","e",":","s","1">>

S1 == <<"s","1">>

DB_S1_SPACED == <<"D","B",":"," ","s","1">>

S2 == <<"s","2">>

PLAN2 == <<"P","2">>

SN1 == <<"S","N","1">>

SN2 == <<"S","N","2">>

DupRow(name, type, plan, serial) == Row(name, type, plan, serial, None, None)

\* the records a table is drawn from: one base record and the records that
\* differ from it in the prefix, the core name, the type, the plan or the
\* serial number, or lack the type, the plan or the serial number (every
\* record has a name)
DupRows ==
    {DupRow(DB_S1, DATABASE, PLAN1, SN1),
     DupRow(DATABASE_S1, DATABASE, PLAN1, SN1),
     DupRow(S1, DATABASE, PLAN1, SN1),
     DupRow(DB_S1_SPACED, DATABASE, PLAN1, SN1),
     DupRow(S2, DATABASE, PLAN1, SN1),
     DupRow(DB_S1, SERVER, PLAN1, SN1),
     DupRow(DB_S1, DATABASE, PLAN2, SN1),
     DupRow(DB_S1, DATABASE, PLAN1, SN2),
     DupRow(DB_S1, DATABASE, PLAN1, <<>>),
     DupRow(DB_S1, DATABASE, PLAN1, <<" ">>),
     DupRow(DB_S1, DATABASE, PLAN1, None),
     DupRow(DB_S1, None, PLAN1, SN1),
     DupRow(DB_S1, DATABASE, None, SN1)}

DupScripts ==
    {<<"extract_device_info", "analysis_1_name_type_duplicates",
       "analysis_2_serial_type_duplicates", "analysis_3_future_serial_duplicates">>,
     <<"extract_device_info", "analyze_before_duplicates",
       "analyze_serial_duplicates_before">>,
     <<"analyze_duplicates_current_format">>,
     <<"analyze_servicenow_data">>}

InitDup ==
    /\ columns = {"name", "type", "plan", "serial_number"}
    /\ \E n \in 1..MaxRows : data \in [1..n -> DupRows]
    /\ calls \in DupScripts
    /\ results = NoResults
    /\ device_name = None
    /\ device_info = NoDeviceInfo
    /\ header = LoadedHeader(calls, columns)
    /\ error = NoError
    /\ files = NoFiles
    /\ stdin = <<>>

NextDup ==
    \/ extract_device_info
    \/ analysis_1_name_type_duplicates
    \/ analysis_2_serial_type_duplicates
    \/ analysis_3_future_serial_duplicates
    \/ analyze_before_duplicates
    \/ analyze_serial_duplicates_before
    \/ analyze_duplicates_current_format
    \/ analyze_servicenow_data

SpecDup == InitDup /\ [][NextDup]_vars

(***************************************************************************)
(* comment.py / p.py "prod vs api data": the CSV comparison tool           *)
(***************************************************************************)
Range(s) == {s[k] : k \in 1..Len(s)}

\* get_csv_data: the stripped names of the first row and the rows after it
get_csv_data(file) ==
    [headers |-> [k \in 1..Len(file.headers) |-> strip(file.headers[k])],
     rows |-> file.rows]

\* auto_detect_key_column: common_ids
common_ids ==
    <<<<"s","y","s","_","i","d">>,
      <<"i","d">>,
      <<"I","D">>,
      <<"n","u","m","b","e","r">>,
      <<"N","u","m","b","e","r">>,
      <<"r","e","c","o","r","d","_","i","d">>,
      <<"r","e","c","o","r","d","i","d">>,
      <<"t","i","c","k","e","t","_","n","u","m","b","e","r">>,
      <<"u","s","e","r","_","i","d">>,
      <<"u","s","e","r","i","d">>,
      <<"e","m","a","i","l">>,
      <<"e","m","p","l","o","y","e","e","_","i","d">>,
      <<"e","m","p","l","o","y","e","e","i","d">>>>

\* auto_detect_key_column: the first of common_ids that is a header, None
\* when there is none
auto_detect_key_column(headers) ==
    LET found == {n \in 1..Len(common_ids) : common_ids[n] \in Range(headers)}
    IN  IF found = {} THEN None
        ELSE common_ids[CHOOSE n \in found : \A m \in found : n <= m]

\* sorted(set of str)
RECURSIVE sorted(_)
sorted(S) ==
    IF S = {} THEN <<>>
    ELSE LET least == CHOOSE a \in S : \A b \in S : a = b \/ StrLess(a, b)
         IN  <<least>> \o sorted(S \ {least})

Digits == <<"0", "1", "2", "3", "4", "5", "6", "7", "8", "9">>

\* str.isdigit()
isdigit(s) == s # <<>> /\ \A k \in 1..Len(s) : s[k] \in Range(Digits)

\* int(s) of a string of digits
RECURSIVE int(_)
int(s) ==
    IF s = <<>> THEN 0
    ELSE 10 * int(SubSeq(s, 1, Len(s) - 1))
         + (CHOOSE d \in 0..9 : Digits[d + 1] = s[Len(s)])

\* what the user does instead of typing a line
CtrlC == <<"KeyboardInterrupt">>

\* prompt_for_key_column: reads lines until one is the number or the name
\* of a common column; input() raises EOFError when no line is left, and
\* Ctrl-C ends the program (sys.exit(0))
RECURSIVE prompt_for_key_column(_, _, _)
prompt_for_key_column(prod_headers, api_headers, lines) ==
    LET common_cols == Range(prod_headers) \cap Range(api_headers)
        common_list == sorted(common_cols)
        choice == strip(Head(lines))
    IN  IF lines = <<>> THEN [key_col |-> None, error |-> "EOFError", lines |-> lines]
        ELSE IF Head(lines) = CtrlC
        THEN [key_col |-> None, error |-> "SystemExit", lines |-> Tail(lines)]
        ELSE IF isdigit(choice) /\ 0 <= int(choice) - 1 /\ int(choice) - 1 < Len(common_list)
        THEN [key_col |-> common_list[int(choice)], error |-> NoError, lines |-> Tail(lines)]
        ELSE IF ~isdigit(choice) /\ choice \in common_cols
        THEN [key_col |-> choice, error |-> NoError, lines |-> Tail(lines)]
        ELSE prompt_for_key_column(prod_headers, api_headers, Tail(lines))

\* the key column asked for whatever auto-detection finds
select_key_column_always_prompting(prod_headers, api_headers, lines) ==
    prompt_for_key_column(prod_headers, api_headers, lines)

\* compare_csv_files: 'Detect or prompt for key column'
select_key_column(prod_headers, api_headers, lines) ==
    IF auto_detect_key_column(prod_headers) # None
       /\ auto_detect_key_column(prod_headers) \in Range(api_headers)
    THEN [key_col |-> auto_detect_key_column(prod_headers), error |-> NoError,
          lines |-> lines]
    ELSE prompt_for_key_column(prod_headers, api_headers, lines)

\* list.index(x), counted from 1
index(list, x) == CHOOSE k \in 1..Len(list) : list[k] = x /\ \A j \in 1..(k - 1) : list[j] # x

\* create_row_dict letting a row without a key cell through under the empty key
keyed_rows_with_empty(headers, rows, key_col) ==
    [n \in 1..Len(rows) |->
        [row_num |-> n + 1, data |-> rows[n],
         key_val |-> IF Len(rows[n]) >= index(headers, key_col)
                     THEN strip(rows[n][index(headers, key_col)])
                     ELSE <<>>]]

\* create_row_dict: the rows that have a cell in the key column, with the
\* stripped key each holds (row numbers count from 2, the header being row 1)
keyed_rows(headers, rows, key_col) ==
    SelectSeq([n \in 1..Len(rows) |->
                  [row_num |-> n + 1, data |-> rows[n],
                   key_val |-> IF Len(rows[n]) >= index(headers, key_col)
                               THEN strip(rows[n][index(headers, key_col)])
                               ELSE <<>>]],
              LAMBDA r : r.key_val # <<>>)

\* row_dict keeping the first row of a key instead of the last
row_dict_of_first_rows(headers, rows, key_col) ==
    LET keyed == keyed_rows(headers, rows, key_col)
    IN  [key \in {keyed[n].key_val : n \in 1..Len(keyed)} |->
            LET first == CHOOSE n \in 1..Len(keyed) :
                             /\ keyed[n].key_val = key
                             /\ \A m \in 1..(n - 1) : keyed[m].key_val # key
            IN  [data |-> keyed[first].data, row_num |-> keyed[first].row_num]]

\* create_row_dict: row_dict, every assignment to a key replacing the one
\* before
row_dict_of(headers, rows, key_col) ==
    LET keyed == keyed_rows(headers, rows, key_col)
    IN  [key \in {keyed[n].key_val : n \in 1..Len(keyed)} |->
            LET last == CHOOSE n \in 1..Len(keyed) :
                            /\ keyed[n].key_val = key
                            /\ \A m \in (n + 1)..Len(keyed) : keyed[m].key_val # key
            IN  [data |-> keyed[last].data, row_num |-> keyed[last].row_num]]

\* create_row_dict: rows_with_empty_keys, the rows whose key cell is empty
\* or that are too short to have one
rows_with_empty_keys_of(headers, rows, key_col) ==
    LET numbered == [n \in 1..Len(rows) |-> [row_num |-> n + 1, data |-> rows[n]]]
    IN  SelectSeq(numbered,
            LAMBDA r : \/ Len(r.data) < index(headers, key_col)
                       \/ strip(r.data[index(headers, key_col)]) = <<>>)

\* comment.py create_row_dict(headers, rows, key_col)
create_row_dict(headers, rows, key_col) ==
    [row_dict |-> row_dict_of(headers, rows, key_col),
     rows_with_empty_keys |-> rows_with_empty_keys_of(headers, rows, key_col)]

\* the cell taken as it is, without strip()
cell_unstripped(headers, row, col) ==
    IF index(headers, col) <= Len(row) THEN row[index(headers, col)] ELSE <<>>

\* row[idx].strip() if idx < len(row) else ""
cell(headers, row, col) ==
    IF index(headers, col) <= Len(row) THEN strip(row[index(headers, col)]) ELSE <<>>

\* every finding called Different
issue_always_different(prod_val, api_val) == "Different"

\* 'Missing' if not api_val and prod_val else 'Different'
issue(prod_val, api_val) ==
    IF api_val = <<>> /\ prod_val # <<>> THEN "Missing" ELSE "Different"

\* compare_csv_files: row_differences of one common key, the columns taken
\* in the order the set common_columns is iterated in
row_differences(prod, api, prod_dict, api_dict, key_col, key, col_order) ==
    LET cols == SelectSeq(col_order,
                    LAMBDA col : /\ col # key_col
                                 /\ cell(api.headers, api_dict[key].data, col)
                                       # cell(prod.headers, prod_dict[key].data, col))
    IN  [n \in 1..Len(cols) |->
            [key |-> key, column |-> cols[n],
             prod_value |-> cell(prod.headers, prod_dict[key].data, cols[n]),
             api_value |-> cell(api.headers, api_dict[key].data, cols[n]),
             issue |-> issue(cell(prod.headers, prod_dict[key].data, cols[n]),
                             cell(api.headers, api_dict[key].data, cols[n]))]]

\* the ratio not multiplied by 100
percent_as_ratio(part, whole) == IF whole > 0 THEN <<part, whole>> ELSE <<0, 1>>

\* a percentage, kept as the exact fraction <<numerator, denominator>>
percent(part, whole) == IF whole > 0 THEN <<part * 100, whole>> ELSE <<0, 1>>

\* the orders a set can be iterated in
Orders(S) == {o \in [1..Cardinality(S) -> S] : Range(o) = S}

\* compare_csv_files from 'Compare columns' on, the sets common_keys and
\* common_columns iterated in the given orders
comparison(prod, api, key_col, key_order, col_order) ==
    LET prod_made == create_row_dict(prod.headers, prod.rows, key_col)
        api_made == create_row_dict(api.headers, api.rows, key_col)
        prod_dict == prod_made.row_dict
        api_dict == api_made.row_dict
        prod_keys == DOMAIN prod_dict
        api_keys == DOMAIN api_dict
        differences == [n \in 1..Len(key_order) |->
                           row_differences(prod, api, prod_dict, api_dict, key_col,
                                           key_order[n], col_order)]
    IN  [key_col |-> key_col,
         common_columns |-> Range(prod.headers) \cap Range(api.headers),
         missing_in_api |-> Range(prod.headers) \ Range(api.headers),
         extra_in_api |-> Range(api.headers) \ Range(prod.headers),
         prod_dict |-> prod_dict,
         api_dict |-> api_dict,
         prod_empty_keys |-> prod_made.rows_with_empty_keys,
         api_empty_keys |-> api_made.rows_with_empty_keys,
         missing_from_api |-> prod_keys \ api_keys,
         extra_in_api_keys |-> api_keys \ prod_keys,
         common_keys |-> prod_keys \cap api_keys,
         value_differences |-> concat(differences),
         matching_rows |-> SelectSeq(key_order, LAMBDA key :
                               \E n \in 1..Len(key_order) :
                                   key_order[n] = key /\ differences[n] = <<>>),
         api_completeness |-> percent(Cardinality(prod_keys \cap api_keys),
                                      Cardinality(prod_keys)),
         api_accuracy |->
             percent(Cardinality({n \in 1..Len(key_order) : differences[n] = <<>>}),
                     Cardinality(prod_keys \cap api_keys))]

\* comment.py compare_csv_files(prod_file, api_file, output_excel): reads
\* the two files, selects the key column (prompting when it must), compares
\* and writes the report; an exception or exit at the prompt ends the run
\* without a report
compare_csv_files(call, prod_file, api_file, output_excel) ==
    /\ NextCall(call)
    /\ LET prod == get_csv_data(prod_file)
           api == get_csv_data(api_file)
           selected == select_key_column(prod.headers, api.headers, stdin)
       IN  /\ stdin' = selected.lines
           /\ IF selected.error # NoError
              THEN /\ error' = selected.error
                   /\ calls' = <<>>
                   /\ UNCHANGED results
              ELSE /\ \E key_order \in Orders(DOMAIN row_dict_of(prod.headers, prod.rows,
                                                                 selected.key_col)
                                            \cap DOMAIN row_dict_of(api.headers, api.rows,
                                                                    selected.key_col)),
                        col_order \in Orders(Range(prod.headers) \cap Range(api.headers)) :
                          results' = (output_excel :>
                                         comparison(prod, api, selected.key_col,
                                                    key_order, col_order)) @@ results
                   /\ calls' = Tail(calls)
                   /\ UNCHANGED error
    /\ UNCHANGED <<data, columns, device_name, device_info, header, files>>

(***************************************************************************)
(* The second listing of the unnamed source file: _identify_type_column    *)
(***************************************************************************)
\* DRPlanAnalyzer.__init__: valid_ci_types
valid_ci_types ==
    <<<<"A","I","X"," ","S","e","r","v","e","r">>, <<"W","i","n","d","o","w","s"," ","S","e","r","v","e","r">>,
      <<"U","n","i","x"," ","S","e","r","v","e","r">>, <<"L","i","n","u","x"," ","S","e","r","v","e","r">>,
      <<"S","e","r","v","e","r">>, <<"D","a","t","a","b","a","s","e">>,
      <<"A","p","p","l","i","c","a","t","i","o","n"," ","S","e","r","v","e","r">>, <<"W","e","b"," ","S","e","r","v","e","r">>>>

\* the texts that mark a scope type
scope_types == <<<<"p","r","i","m","a","r","y"," ","s","c","o","p","e">>, <<"r","e","l","a","t","e","d"," ","a","s","s","e","t">>, <<"s","c","o","p","e">>>>

\* data[col]: the cells of the column of that name (the last one of that
\* name in the sheet)
column_cells(sheet, col) ==
    LET at == CHOOSE k \in 1..Len(sheet.headers) :
                  /\ sheet.headers[k] = col
                  /\ \A j \in (k + 1)..Len(sheet.headers) : sheet.headers[j] # col
    IN  [n \in 1..Len(sheet.rows) |-> sheet.rows[n][at]]

\* data[col].dropna().unique()[:20]
unique_values(sheet, col) ==
    LET values == unique(SelectSeq(column_cells(sheet, col), notna))
    IN  SubSeq(values, 1, IF Len(values) < 20 THEN Len(values) ELSE 20)

\* the number of sampled values that contain one of the texts, letter case
\* of the value aside
matches(values, texts) ==
    Cardinality({n \in 1..Len(values) :
                    \E t \in 1..Len(texts) : contains(lower(values[n]), lower(texts[t]))})

ci_type_matches(sheet, col) == matches(unique_values(sheet, col), valid_ci_types)

scope_matches(sheet, col) == matches(unique_values(sheet, col), scope_types)

\* [col for col in self.data.columns if 'type' in col.lower()]
type_columns(sheet) ==
    SelectSeq(sheet.headers, LAMBDA col : contains(lower(col), COL_type))

\* self.ci_type_column after the loop and the fallback: every column with
\* more CI type matches than scope matches is assigned in turn, so the last
\* of them stays; without any, the first type column, or 'Type'
ci_type_column(sheet) ==
    LET accepted == SelectSeq(type_columns(sheet),
                        LAMBDA col : ci_type_matches(sheet, col) > scope_matches(sheet, col))
    IN  IF accepted # <<>> THEN accepted[Len(accepted)]
        ELSE IF type_columns(sheet) # <<>> THEN type_columns(sheet)[1]
        ELSE COL_Type

\* DRPlanAnalyzer._identify_type_column on the loaded sheet
identify_type_column(call) ==
    /\ NextCall(call)
    /\ results' = (call :> ci_type_column(files.sheet)) @@ results
    /\ calls' = Tail(calls)
    /\ UNCHANGED <<data, columns, device_name, device_info, header, error, files, stdin>>

(***************************************************************************)
(* p.py "v2 csv columns": the earlier comparison tool (API vs frontend)    *)
(***************************************************************************)
\* v2 auto_detect_key_column: common_ids
common_ids_v2 == SubSeq(common_ids, 1, 10)

v2_auto_detect_key_column(headers) ==
    LET found == {n \in 1..Len(common_ids_v2) : common_ids_v2[n] \in Range(headers)}
    IN  IF found = {} THEN None
        ELSE common_ids_v2[CHOOSE n \in found : \A m \in found : n <= m]

\* v2 create_row_dict(headers, rows, key_col): the last row of every
\* non-empty stripped key; the other rows are skipped
v2_create_row_dict(headers, rows, key_col) ==
    [key \in DOMAIN row_dict_of(headers, rows, key_col) |->
        row_dict_of(headers, rows, key_col)[key].data]

\* v2 compare_csv_files: the value differences of one common key
v2_row_differences(api, frontend, api_dict, frontend_dict, key_col, key, col_order) ==
    LET cols == SelectSeq(col_order,
                    LAMBDA col : /\ col # key_col
                                 /\ cell(api.headers, api_dict[key], col)
                                       # cell(frontend.headers, frontend_dict[key], col))
    IN  [n \in 1..Len(cols) |->
            [key |-> key, column |-> cols[n],
             api_value |-> cell(api.headers, api_dict[key], cols[n]),
             frontend_value |-> cell(frontend.headers, frontend_dict[key], cols[n])]]

v2_comparison(api, frontend, key_col, key_order, col_order) ==
    LET api_dict == v2_create_row_dict(api.headers, api.rows, key_col)
        frontend_dict == v2_create_row_dict(frontend.headers, frontend.rows, key_col)
    IN  [key_col |-> key_col,
         common_columns |-> Range(api.headers) \cap Range(frontend.headers),
         missing_in_api |-> Range(frontend.headers) \ Range(api.headers),
         extra_in_api |-> Range(api.headers) \ Range(frontend.headers),
         api_dict |-> api_dict,
         frontend_dict |-> frontend_dict,
         only_in_api |-> DOMAIN api_dict \ DOMAIN frontend_dict,
         only_in_frontend |-> DOMAIN frontend_dict \ DOMAIN api_dict,
         common_keys |-> DOMAIN api_dict \cap DOMAIN frontend_dict,
         value_differences |->
             concat([n \in 1..Len(key_order) |->
                        v2_row_differences(api, frontend, api_dict, frontend_dict,
                                           key_col, key_order[n], col_order)])]

\* p.py (v2) compare_csv_files(api_file, frontend_file, output_excel)
v2_compare_csv_files(call, api_file, frontend_file, output_excel) ==
    /\ NextCall(call)
    /\ LET api == get_csv_data(api_file)
           frontend == get_csv_data(frontend_file)
           detected == v2_auto_detect_key_column(api.headers)
           selected == IF detected # None /\ detected \in Range(frontend.headers)
                       THEN [key_col |-> detected, error |-> NoError, lines |-> stdin]
                       ELSE prompt_for_key_column(api.headers, frontend.headers, stdin)
       IN  /\ stdin' = selected.lines
           /\ IF selected.error # NoError
              THEN /\ error' = selected.error
                   /\ calls' = <<>>
                   /\ UNCHANGED results
              ELSE /\ \E key_order \in
                          Orders(DOMAIN v2_create_row_dict(api.headers, api.rows,
                                                           selected.key_col)
                                 \cap DOMAIN v2_create_row_dict(frontend.headers,
                                                                frontend.rows,
                                                                selected.key_col)),
                        col_order \in
                          Orders(Range(api.headers) \cap Range(frontend.headers)) :
                          results' = (output_excel :>
                                         v2_comparison(api, frontend, selected.key_col,
                                                       key_order, col_order)) @@ results
                   /\ calls' = Tail(calls)
                   /\ UNCHANGED error
    /\ UNCHANGED <<data, columns, device_name, device_info, header, files>>

(***************************************************************************)
(* Specification of the comparison tool: two small files, the tool run on  *)
(* them, run on them again, and run with the files exchanged               *)
(***************************************************************************)
MaxFileRows == 2

K1 == <<"K","1">>

K2 == <<"K","2">>

K3 == <<"K","3">>

K1_PADDED == <<" ","K","1"," ">>

X == <<"x">>

Y == <<"y">>

X_PADDED == <<" ","x">>

EMPTY == <<>>

COL_id == <<"i","d">>

COL_sys_id == <<"s","y","s","_","i","d">>

COL_a == <<"a">>

COL_b == <<"b">>

COL_c == <<"c">>

\* the header rows of the two files and what the user types when asked for
\* the key column: the same columns in both files, and columns in another
\* order with a column of one file only
DiffInputs ==
    {[prod |-> <<COL_id, COL_a, COL_b>>, api |-> <<COL_id, COL_a, COL_b>>, typed |-> <<>>],
     [prod |-> <<COL_id, COL_a, COL_b>>, api |-> <<COL_b, COL_id, COL_c>>, typed |-> <<>>]}

\* the rows a file is made of: three cells, or fewer in a short row
FileRows ==
    {<<K1, X, X>>, <<K1, Y>>, <<K1_PADDED, X_PADDED, X>>, <<K2, X, Y>>, <<K3, X, X>>,
     <<EMPTY, X, X>>, <<>>}

DiffScript ==
    <<"compare_csv_files", "compare_csv_files again", "compare_csv_files exchanged",
      "v2 compare_csv_files">>

InitDiff ==
    /\ \E in \in DiffInputs :
          \E n, m \in 1..MaxFileRows :
              \E r1 \in [1..n -> FileRows], r2 \in [1..m -> FileRows] :
                  /\ files = [prod |-> [headers |-> in.prod, rows |-> r1],
                              api |-> [headers |-> in.api, rows |-> r2]]
                  /\ stdin = in.typed
    /\ calls = DiffScript
    /\ data = <<>>
    /\ columns = {}
    /\ header = <<>>
    /\ results = NoResults
    /\ device_name = None
    /\ device_info = [v \in {"a", "b"} |-> NotRun]
    /\ error = NoError

NextDiff ==
    \/ compare_csv_files("compare_csv_files", files.prod, files.api, "report")
    \/ compare_csv_files("compare_csv_files again", files.prod, files.api, "report again")
    \/ compare_csv_files("compare_csv_files exchanged", files.api, files.prod,
                         "report exchanged")
    \/ v2_compare_csv_files("v2 compare_csv_files", files.prod, files.api, "v2 report")

SpecDiff == InitDiff /\ [][NextDiff]_vars

(***************************************************************************)
(* The comparison tool run on files whose headers hold several, one or     *)
(* none of the common identifier names, with a user at the prompt          *)
(***************************************************************************)
COL_number == <<"n","u","m","b","e","r">>

LINE_1 == <<"1">>

LINE_2 == <<" ","2">>

LINE_9 == <<"9">>

\* the header rows a file can have
KeyHeaders ==
    {<<COL_sys_id, COL_id, COL_a>>, <<COL_id, COL_sys_id, COL_a>>, <<COL_id, COL_a, COL_b>>,
     <<COL_number, COL_id, COL_a>>, <<COL_a, COL_number>>, <<COL_a, COL_b>>, <<COL_c>>}

\* what the user types when asked for the key column: nothing, a number, a
\* column name, a wrong line before a right one, Ctrl-C
TypedLines ==
    {<<>>, <<LINE_1>>, <<COL_a>>, <<LINE_9, LINE_2>>, <<COL_c, COL_id>>, <<CtrlC>>}

\* one row of a file under the given header row
KeyRows(headers) ==
    {[k \in 1..Len(headers) |-> v] : v \in {K1, K2}}

InitKey ==
    /\ \E prod_headers \in KeyHeaders, api_headers \in KeyHeaders :
          \E r1 \in KeyRows(prod_headers), r2 \in KeyRows(api_headers) :
              files = [prod |-> [headers |-> prod_headers, rows |-> <<r1>>],
                       api |-> [headers |-> api_headers, rows |-> <<r2>>]]
    /\ stdin \in TypedLines
    /\ calls = <<"compare_csv_files">>
    /\ data = <<>>
    /\ columns = {}
    /\ header = <<>>
    /\ results = NoResults
    /\ device_name = None
    /\ device_info = [v \in {"a", "b"} |-> NotRun]
    /\ error = NoError

NextKey == compare_csv_files("compare_csv_files", files.prod, files.api, "report")

SpecKey == InitKey /\ [][NextKey]_vars

(***************************************************************************)
(* The attribute transfer risk analysis on BEFORE tables with critical     *)
(* attributes                                                              *)
(***************************************************************************)
SPACE == <<" ">>

\* a record with a DR device and a comment; the table has no column for the
\* other critical attributes
RiskRow(name, type, plan, dr_device, comments) ==
    Row(name, type, plan, None, None, None)
        @@ [dr_device |-> dr_device, comments |-> comments]

RiskRows ==
    {RiskRow(name, DATABASE, PLAN1, dr_device, comments) :
        name \in {DATABASE_S1, DB_S1, S1}, dr_device \in {None, X, Y, SPACE},
        comments \in {None, X}}
    \cup {RiskRow(DB_S1, SERVER, PLAN1, X, None), RiskRow(DB_S1, DATABASE, PLAN2, X, None)}

InitRisk ==
    /\ columns = {"name", "type", "plan", "dr_device", "comments"}
    /\ \E n \in 1..MaxRows : data \in [1..n -> RiskRows]
    /\ calls = <<"extract_device_info", "analyze_attribute_transfer_risk">>
    /\ results = NoResults
    /\ device_name = None
    /\ device_info = NoDeviceInfo
    /\ header = <<>>
    /\ error = NoError
    /\ files = NoFiles
    /\ stdin = <<>>

NextRisk ==
    \/ extract_device_info
    \/ analyze_attribute_transfer_risk

SpecRisk == InitRisk /\ [][NextRisk]_vars

(***************************************************************************)
(* The type column detection run on sheets with several type columns       *)
(***************************************************************************)
COL_Scope_Type == <<"S","c","o","p","e"," ","T","y","p","e">>

PRIMARY_SCOPE == <<"P","r","i","m","a","r","y"," ","S","c","o","p","e">>

SERVER_SCOPE == <<"S","e","r","v","e","r"," ","S","c","o","p","e">>

\* the header rows of a sheet: two columns with 'type' in the name, alone
\* or after a name column, or one
TypeHeaders ==
    {<<COL_Type, COL_CI_Type>>, <<COL_Scope_Type, COL_Type>>,
     <<COL_Name, COL_CI_Type, COL_Scope_Type>>}

\* the cells of the type columns of a row
TypeCells == {SERVER, DATABASE, PRIMARY_SCOPE, SERVER_SCOPE, None}

\* the rows of a sheet under the given header row
TypeRows(headers) ==
    {[k \in 1..Len(headers) |->
         IF headers[k] = COL_Name THEN S1
         ELSE IF \A j \in 1..(k - 1) : ~contains(lower(headers[j]), COL_type)
         THEN first ELSE second] :
        first \in TypeCells, second \in TypeCells}

InitType ==
    /\ \E headers \in TypeHeaders, n \in 1..MaxFileRows :
          \E rows \in [1..n -> TypeRows(headers)] :
              files = [sheet |-> [headers |-> headers, rows |-> rows]]
    /\ calls = <<"_identify_type_column", "_identify_type_column again">>
    /\ data = <<>>
    /\ columns = {}
    /\ header = <<>>
    /\ results = NoResults
    /\ device_name = None
    /\ device_info = NoDeviceInfo
    /\ error = NoError
    /\ stdin = <<>>

NextType ==
    \/ identify_type_column("_identify_type_column")
    \/ identify_type_column("_identify_type_column again")

SpecType == InitType /\ [][NextType]_vars

(***************************************************************************)
(* p.py analyze_servicenow_extract run on Excel files of two sheets        *)
(***************************************************************************)
SHEET_A == <<"A">>

SHEET_B == <<"B">>

TRUE_TEXT == <<"t","r","u","e">>

PROD == <<"p","r","o","d">>

DEV == <<"d","e","v">>

\* the columns a sheet can have: all of them, or all but the plan column
SheetColumns ==
    {{"name", "type", "plan", "manual_entry", "environment"},
     {"name", "type", "manual_entry", "environment"}}

\* the records of a sheet with the given columns
SheetRecords(cols) ==
    {Row(name, type, IF "plan" \in cols THEN PLAN1 ELSE None, None, manual, env) :
        name \in {DB_S1}, type \in {SERVER}, manual \in {TRUE_TEXT, X},
        env \in {PROD, DEV}}
    \cup {Row(DB_S1, DATABASE, IF "plan" \in cols THEN PLAN1 ELSE None, None, X, PROD),
          Row(DB_S1, SERVER, IF "plan" \in cols THEN PLAN1 ELSE None, None, TRUE_TEXT, None)}

Sheets(sheet_name) ==
    UNION {{[sheet_name |-> sheet_name, columns |-> cols, rows |-> rows] :
               rows \in UNION {[1..n -> SheetRecords(cols)] : n \in 1..MaxPolicyRows}} :
              cols \in SheetColumns}

InitSheets ==
    /\ \E a \in Sheets(SHEET_A), b \in Sheets(SHEET_B) : files = [sheets |-> <<a, b>>]
    /\ calls = <<"analyze_servicenow_extract excel">>
    /\ data = <<>>
    /\ columns = {}
    /\ header = <<>>
    /\ results = NoResults
    /\ device_name = None
    /\ device_info = NoDeviceInfo
    /\ error = NoError
    /\ stdin = <<>>

NextSheets == analyze_servicenow_extract_excel

SpecSheets == InitSheets /\ [][NextSheets]_vars

(***************************************************************************)
(* The duplicate analyses 1 and 2 on tables with a manual entry column     *)
(***************************************************************************)
YES == <<"Y","E","S">>

T_UPPER == <<"T">>

\* records of one plan, type and serial number under two full names, the
\* manual entry value true in some spelling, another text, or missing
ManualRows ==
    {Row(name, DATABASE, PLAN1, SN1, manual, None) :
        name \in {DB_S1, DATABASE_S1}, manual \in {TRUE_TEXT, YES, T_UPPER, X, None}}

InitManual ==
    /\ columns = {"name", "type", "plan", "serial_number", "manual_entry"}
    /\ \E n \in 1..MaxRows : data \in [1..n -> ManualRows]
    /\ calls = <<"extract_device_info", "analysis_1_name_type_duplicates",
                 "analysis_2_serial_type_duplicates">>
    /\ results = NoResults
    /\ device_name = None
    /\ device_info = NoDeviceInfo
    /\ header = CanonicalHeader(columns)
    /\ error = NoError
    /\ files = NoFiles
    /\ stdin = <<>>

NextManual ==
    \/ extract_device_info
    \/ analysis_1_name_type_duplicates
    \/ analysis_2_serial_type_duplicates

SpecManual == InitManual /\ [][NextManual]_vars

(***************************************************************************)
(* The serial number analyses 2, 3 and 6 of the first cla3oct19.py script  *)
(***************************************************************************)
InitSerial ==
    /\ columns = {"name", "type", "plan", "serial_number"}
    /\ \E n \in 1..MaxRows : data \in [1..n -> DupRows]
    /\ calls = <<"extract_device_info", "analysis_2_serial_type_duplicates",
                 "analysis_3_future_serial_duplicates",
                 "analysis_6_same_serial_different_type">>
    /\ results = NoResults
    /\ device_name = None
    /\ device_info = NoDeviceInfo
    /\ header = CanonicalHeader(columns)
    /\ error = NoError
    /\ files = NoFiles
    /\ stdin = <<>>

NextSerial ==
    \/ extract_device_info
    \/ analysis_2_serial_type_duplicates
    \/ analysis_3_future_serial_duplicates
    \/ analysis_6_same_serial_different_type

SpecSerial == InitSerial /\ [][NextSerial]_vars

(***************************************************************************)
(* Specification of column normalization: a table loaded under various     *)
(* column names, each script run from its start                            *)
(***************************************************************************)
Absent == <<>>

\* the headers a table is loaded with: per field one of its spellings or no
\* column at all, and a column no script knows
NormalizeHeaders ==
    {SelectSeq(<<n, t, p, sn, COL_Comments>>, LAMBDA col : col # Absent) :
        n \in {COL_Name, COL_name, COL_NAME, COL_Device_Name, Absent},
        t \in {COL_Type, COL_u_type, COL_type, COL_CI_Type, Absent},
        p \in {COL_Plan, COL_plan, Absent},
        sn \in {COL_Serial_Number, Absent}}

NormalizeRows ==
    {DupRow(DB_S1, DATABASE, PLAN1, SN1), DupRow(DATABASE_S1, DATABASE, PLAN1, SN1)}

\* cla3oct19.py main (load_data done) and p.py analyze_servicenow_data
NormalizeScripts ==
    {<<"normalize_columns", "extract_device_info", "analysis_1_name_type_duplicates",
       "analysis_2_serial_type_duplicates", "analysis_3_future_serial_duplicates",
       "analysis_4_manual_non_production">>,
     <<"analyze_servicenow_data">>}

InitNormalize ==
    /\ header \in NormalizeHeaders
    /\ columns = canonical_columns(header)
    /\ data \in [1..(MaxRows - 1) -> NormalizeRows]
    /\ calls \in NormalizeScripts
    /\ results = NoResults
    /\ device_name = None
    /\ device_info = NoDeviceInfo
    /\ error = NoError
    /\ files = NoFiles
    /\ stdin = <<>>

NextNormalize ==
    \/ normalize_columns
    \/ extract_device_info
    \/ analysis_1_name_type_duplicates
    \/ analysis_2_serial_type_duplicates
    \/ analysis_3_future_serial_duplicates
    \/ analysis_4_manual_non_production
    \/ analyze_servicenow_data

SpecNormalize == InitNormalize /\ [][NextNormalize]_vars

(***************************************************************************)
(* Claims about the comparison tool                                        *)
(***************************************************************************)
\* the position of a column in a file's header row
ColumnAt(file, col) ==
    CHOOSE k \in 1..Len(file.headers) :
        /\ strip(file.headers[k]) = col
        /\ \A j \in 1..(k - 1) : strip(file.headers[j]) # col

\* the rows of a file that have a non-empty key, by their position
RowsWithKey(file, key_col) ==
    {n \in 1..Len(file.rows) :
        /\ Len(file.rows[n]) >= ColumnAt(file, key_col)
        /\ strip(file.rows[n][ColumnAt(file, key_col)]) # <<>>}

\* the non-empty trimmed keys occurring in a file
KeysOf(file, key_col) ==
    {strip(file.rows[n][ColumnAt(file, key_col)]) : n \in RowsWithKey(file, key_col)}

\* the key sets of a report are those of the given reference and comparison
\* files
KeySetsAre(report, reference, other) ==
    LET ref == KeysOf(reference, report.key_col)
        cmp == KeysOf(other, report.key_col)
    IN  /\ report.missing_from_api = ref \ cmp
        /\ report.extra_in_api_keys = cmp \ ref
        /\ report.common_keys = ref \cap cmp
        /\ report.missing_from_api \cap report.extra_in_api_keys = {}
        /\ report.missing_from_api \cap report.common_keys = {}
        /\ report.extra_in_api_keys \cap report.common_keys = {}
        /\ report.missing_from_api \cup report.extra_in_api_keys \cup report.common_keys
               = ref \cup cmp

\* C12: missing_keys is exactly the set of non-empty trimmed keys of the
\* reference that the comparison lacks, extra_keys the keys of the
\* comparison that the reference lacks, common_keys the keys of both; the
\* three sets are pairwise disjoint and their union is the set of all
\* non-empty keys of the two files.
C12_KeySetDifference ==
    /\ Ran("report") => KeySetsAre(results["report"], files.prod, files.api)
    /\ Ran("report exchanged") =>
           KeySetsAre(results["report exchanged"], files.api, files.prod)

\* scenario E: one key of the reference only, one of the comparison only and
\* one of both
C12_Witness ==
    /\ Ran("report")
    /\ Cardinality(results["report"].missing_from_api) = 1
    /\ Cardinality(results["report"].extra_in_api_keys) = 1
    /\ Cardinality(results["report"].common_keys) = 1

\* the row a file is compared by under a key: the last of the rows with it
RowOfKey(file, key_col, key) ==
    CHOOSE n \in RowsWithKey(file, key_col) :
        /\ strip(file.rows[n][ColumnAt(file, key_col)]) = key
        /\ \A m \in RowsWithKey(file, key_col) :
              strip(file.rows[m][ColumnAt(file, key_col)]) = key => m <= n

\* the trimmed value a file has under a key in a column, empty when the row
\* ends before the column
ValueOf(file, key_col, key, col) ==
    LET row == file.rows[RowOfKey(file, key_col, key)]
    IN  IF Len(row) >= ColumnAt(file, col) THEN strip(row[ColumnAt(file, col)]) ELSE <<>>

HeaderNames(file) == {strip(file.headers[k]) : k \in 1..Len(file.headers)}

\* the columns of both files other than the key column
ComparedColumns(report, reference, other) ==
    (HeaderNames(reference) \cap HeaderNames(other)) \ {report.key_col}

ComparedKeys(report, reference, other) ==
    KeysOf(reference, report.key_col) \cap KeysOf(other, report.key_col)

\* the kind of finding the specification gives a pair of unequal values
KindOf(ref_value, cmp_value) ==
    IF cmp_value = <<>> /\ ref_value # <<>> THEN "Missing" ELSE "Different"

\* the value differences of a report are those of the given files
DifferencesAre(report, reference, other) ==
    LET diffs == report.value_differences
    IN  /\ \A key \in ComparedKeys(report, reference, other) :
              \A col \in ComparedColumns(report, reference, other) :
                  Cardinality({n \in 1..Len(diffs) :
                                  diffs[n].key = key /\ diffs[n].column = col})
                      = IF ValueOf(reference, report.key_col, key, col)
                             # ValueOf(other, report.key_col, key, col)
                        THEN 1 ELSE 0
        /\ \A n \in 1..Len(diffs) :
              /\ diffs[n].key \in ComparedKeys(report, reference, other)
              /\ diffs[n].column \in ComparedColumns(report, reference, other)
              /\ diffs[n].prod_value
                     = ValueOf(reference, report.key_col, diffs[n].key, diffs[n].column)
              /\ diffs[n].api_value
                     = ValueOf(other, report.key_col, diffs[n].key, diffs[n].column)
              /\ diffs[n].issue = KindOf(diffs[n].prod_value, diffs[n].api_value)

\* C13: for every common key and every common column other than the key
\* column there is a diff finding if and only if the trimmed reference value
\* and the trimmed comparison value are unequal (the values of the last row
\* with the key); its kind is Missing exactly when the comparison value is
\* empty and the reference value is not, and Different otherwise; there is
\* no finding for the key column, for a column of one file only or for a key
\* of one file only.
C13_DiffFindingIffUnequal ==
    /\ Ran("report") => DifferencesAre(results["report"], files.prod, files.api)
    /\ Ran("report exchanged") =>
           DifferencesAre(results["report exchanged"], files.api, files.prod)

\* a report with a Missing and a Different finding for one key
C13_Witness ==
    /\ Ran("report")
    /\ \E n, m \in 1..Len(results["report"].value_differences) :
          /\ results["report"].value_differences[n].issue = "Missing"
          /\ results["report"].value_differences[m].issue = "Different"
          /\ results["report"].value_differences[m].key
                 = results["report"].value_differences[n].key

\* the fraction metric (numerator, denominator) equals part / whole * 100,
\* and 0 when whole is 0
IsPercentOf(metric, part, whole) ==
    /\ metric[2] > 0
    /\ IF whole = 0 THEN metric[1] = 0
       ELSE metric[1] * whole = part * 100 * metric[2]

\* the common keys whose values agree in every compared column
CleanKeys(report, reference, other) ==
    {key \in ComparedKeys(report, reference, other) :
        \A col \in ComparedColumns(report, reference, other) :
            ValueOf(reference, report.key_col, key, col)
                = ValueOf(other, report.key_col, key, col)}

KeysWithFindings(report) ==
    {report.value_differences[n].key : n \in 1..Len(report.value_differences)}

MetricsAre(report, reference, other) ==
    /\ IsPercentOf(report.api_completeness,
                   Cardinality(ComparedKeys(report, reference, other)),
                   Cardinality(KeysOf(reference, report.key_col)))
    /\ IsPercentOf(report.api_accuracy,
                   Cardinality(CleanKeys(report, reference, other)),
                   Cardinality(ComparedKeys(report, reference, other)))
    /\ Range(report.matching_rows) = CleanKeys(report, reference, other)
    /\ Len(report.matching_rows) = Cardinality(CleanKeys(report, reference, other))
    /\ KeysWithFindings(report) \cap Range(report.matching_rows) = {}
    /\ Len(report.matching_rows) + Cardinality(KeysWithFindings(report))
           = Cardinality(report.common_keys)
    /\ \A metric \in {report.api_completeness, report.api_accuracy} :
           0 <= metric[1] /\ metric[1] <= 100 * metric[2]

\* C14: completeness = |common_keys| / |reference_keys| * 100, 0 when the
\* reference has no keys; accuracy = |common keys with no diff finding| /
\* |common_keys| * 100, 0 when there is no common key; a common key with a
\* diff finding counts for completeness and not for accuracy; matching keys
\* plus keys with differences are the common keys; both metrics lie between
\* 0 and 100.
C14_CompletenessAndAccuracy ==
    /\ Ran("report") => MetricsAre(results["report"], files.prod, files.api)
    /\ Ran("report exchanged") =>
           MetricsAre(results["report exchanged"], files.api, files.prod)

\* two reference keys of which one is common and has a diff finding:
\* completeness 50, accuracy 0
C14_Witness ==
    /\ Ran("report")
    /\ Cardinality(KeysOf(files.prod, results["report"].key_col)) = 2
    /\ Cardinality(results["report"].common_keys) = 1
    /\ KeysWithFindings(results["report"]) = results["report"].common_keys
    /\ results["report"].api_completeness = <<100, 2>>
    /\ results["report"].api_accuracy = <<0, 1>>

\* row n of the file is in the report's empty-key list of that file, under
\* its row number, once
InEmptyKeyList(report, list, file, n) ==
    /\ list \in DOMAIN report
    /\ Cardinality({k \in 1..Len(report[list]) :
                       /\ report[list][k].row_num = n + 1
                       /\ report[list][k].data = file.rows[n]}) = 1

\* every row of the file is either in the empty-key list (no key cell, or an
\* empty one) or has its key in the file's key set, never both
RowsAccountedFor(report, dict, list, file) ==
    \A n \in 1..Len(file.rows) :
        IF n \in RowsWithKey(file, report.key_col)
        THEN /\ strip(file.rows[n][ColumnAt(file, report.key_col)]) \in DOMAIN report[dict]
             /\ ~InEmptyKeyList(report, list, file, n)
        ELSE InEmptyKeyList(report, list, file, n)

\* C15: every row of either file is handled in exactly one of two ways: when
\* its key cell is empty after trimming or the row is too short to have one
\* it is recorded in that file's empty-key list with its row number and
\* contributes to no key set; otherwise its trimmed key is in that file's
\* key set and the row is not in the empty-key list (comment.py
\* create_row_dict and the v2 create_row_dict of p.py).
C15_EmptyKeyRowsTracked ==
    /\ Ran("report") =>
          /\ RowsAccountedFor(results["report"], "prod_dict", "prod_empty_keys", files.prod)
          /\ RowsAccountedFor(results["report"], "api_dict", "api_empty_keys", files.api)
          /\ <<>> \notin DOMAIN results["report"].prod_dict
          /\ <<>> \notin DOMAIN results["report"].api_dict
    /\ Ran("v2 report") =>
          /\ RowsAccountedFor(results["v2 report"], "api_dict", "api_empty_keys",
                              files.prod)
          /\ RowsAccountedFor(results["v2 report"], "frontend_dict",
                              "frontend_empty_keys", files.api)

\* the findings of a report of the given kind, as (key, column, reference
\* value, comparison value)
FindingsOfKind(report, kind) ==
    {<<d.key, d.column, d.prod_value, d.api_value>> :
        d \in {e \in Range(report.value_differences) : e.issue = kind}}

Exchanged(findings) == {<<f[1], f[2], f[4], f[3]>> : f \in findings}

KeySetsExchanged(report, exchanged) ==
    /\ exchanged.missing_from_api = report.extra_in_api_keys
    /\ exchanged.extra_in_api_keys = report.missing_from_api
    /\ exchanged.common_keys = report.common_keys

SameKeyColumn ==
    /\ Ran("report")
    /\ Ran("report exchanged")
    /\ results["report"].key_col = results["report exchanged"].key_col

\* C16 as stated: with the key column held fixed, exchanging the reference
\* and the comparison file exchanges the missing and the extra keys and
\* leaves the common keys unchanged, and every Different finding reappears
\* as a Different finding for the same key and column with its two values
\* exchanged.
C16_ExchangeKeepsDifferent ==
    SameKeyColumn =>
        /\ KeySetsExchanged(results["report"], results["report exchanged"])
        /\ Exchanged(FindingsOfKind(results["report"], "Different"))
               \subseteq FindingsOfKind(results["report exchanged"], "Different")

\* C16 amended: the key sets are exchanged as stated; a Different finding
\* whose two values are both non-empty reappears as a Different finding with
\* the values exchanged; a Different finding whose reference value is empty
\* reappears, values exchanged, as a Missing finding; and a Missing finding
\* reappears, values exchanged, as a Different finding.
C16_ExchangeOfFindings ==
    SameKeyColumn =>
        LET report == results["report"]
            exchanged == results["report exchanged"]
            different == FindingsOfKind(report, "Different")
        IN  /\ KeySetsExchanged(report, exchanged)
            /\ Exchanged({f \in different : f[3] # <<>>})
                   \subseteq FindingsOfKind(exchanged, "Different")
            /\ Exchanged({f \in different : f[3] = <<>>})
                   = FindingsOfKind(exchanged, "Missing")
            /\ Exchanged(FindingsOfKind(report, "Missing"))
                   \subseteq FindingsOfKind(exchanged, "Different")

C16_Witness ==
    /\ SameKeyColumn
    /\ results["report"].missing_from_api # {}
    /\ \E f \in FindingsOfKind(results["report"], "Different") :
           f[3] = <<>> /\ f[4] # <<>>
    /\ \E f \in FindingsOfKind(results["report"], "Different") :
           f[3] # <<>> /\ f[4] # <<>>

\* C17: two runs of the comparison on the same two files give the same
\* findings in the same order: the value-difference list (and the list of
\* matching rows) does not depend on the order in which the set of common
\* keys or the set of common columns is iterated.
C17_SameFindingsInSameOrder ==
    (Ran("report") /\ Ran("report again")) =>
        /\ results["report again"].value_differences
               = results["report"].value_differences
        /\ results["report again"].matching_rows = results["report"].matching_rows

\* the listed identifier names that are columns of both files
ListedInBoth ==
    {n \in 1..Len(common_ids) :
        common_ids[n] \in Range(get_csv_data(files.prod).headers)
                            \cap Range(get_csv_data(files.api).headers)}

\* C18: when no key column is given, the tool takes without asking the
\* highest-priority listed identifier name that is a column of both files,
\* whenever some listed name is a column of both; it needs the user's choice
\* only when no listed name is common to both files.
C18_HighestPriorityCommonNameChosen ==
    (calls = <<>> /\ ListedInBoth # {}) =>
        /\ error = NoError
        /\ Ran("report")
        /\ results["report"].key_col
              = common_ids[CHOOSE n \in ListedInBoth : \A m \in ListedInBoth : n <= m]

\* the row dictionary of the file holds, for every key, the last row with
\* that key and its row number; no row with a key is in the empty-key list
LastRowKept(report, dict, list, file) ==
    /\ DOMAIN report[dict] = KeysOf(file, report.key_col)
    /\ \A key \in KeysOf(file, report.key_col) :
           report[dict][key]
               = [data |-> file.rows[RowOfKey(file, report.key_col, key)],
                  row_num |-> RowOfKey(file, report.key_col, key) + 1]
    /\ \A n \in RowsWithKey(file, report.key_col) :
           \A k \in 1..Len(report[list]) : report[list][k].row_num # n + 1
    /\ Cardinality(DOMAIN report[dict]) <= Cardinality(RowsWithKey(file, report.key_col))

\* C29: when several rows of a file have the same non-empty trimmed key,
\* create_row_dict keeps the last of them only (its data and row number);
\* the comparison is made with that last row, and the earlier rows appear
\* neither in the comparison nor in the empty-key list, so that a file can
\* have fewer keys than rows with a key.
C29_LastRowOfKeyKept ==
    Ran("report") =>
        /\ LastRowKept(results["report"], "prod_dict", "prod_empty_keys", files.prod)
        /\ LastRowKept(results["report"], "api_dict", "api_empty_keys", files.api)
        /\ DifferencesAre(results["report"], files.prod, files.api)

\* a reference file with two different rows of one key, compared by its
\* second row
C29_Witness ==
    /\ Ran("report")
    /\ Cardinality(DOMAIN results["report"].prod_dict)
           < Cardinality(RowsWithKey(files.prod, results["report"].key_col))
    /\ \E n, m \in RowsWithKey(files.prod, results["report"].key_col) :
           /\ n < m
           /\ files.prod.rows[n] # files.prod.rows[m]
           /\ \E key \in DOMAIN results["report"].prod_dict :
                  /\ results["report"].prod_dict[key].row_num = m + 1
                  /\ strip(files.prod.rows[n][ColumnAt(files.prod, results["report"].key_col)])
                         = key
                  /\ \E d \in Range(results["report"].value_differences) : d.key = key

\* the columns of both files
CommonColumns ==
    Range(get_csv_data(files.prod).headers) \cap Range(get_csv_data(files.api).headers)

\* the common column a typed line stands for: the one it numbers, from 1, in
\* the sorted list of the common columns, or the one it names
ChosenBy(line) ==
    {sorted(CommonColumns)[k] :
        k \in {j \in 1..Cardinality(CommonColumns) :
                  j <= 9 /\ line # CtrlC /\ strip(line) = <<Digits[j + 1]>>}}
    \cup {col \in CommonColumns : line # CtrlC /\ col = strip(line)}

\* the first listed identifier name of the PROD header is an API column
AutoDetected ==
    /\ auto_detect_key_column(get_csv_data(files.prod).headers) # None
    /\ auto_detect_key_column(get_csv_data(files.prod).headers)
          \in Range(get_csv_data(files.api).headers)

\* C30: the key column compare_csv_files uses is a column of both the PROD
\* and the API header, whichever way it was selected: the auto-detected
\* column is used only when it is an API column too, and otherwise the
\* prompt returns only on a line that is a valid number, from 1, in the
\* sorted common columns or the name of a common column, every invalid line
\* before it having no effect but another prompt; without a common column
\* the prompt never returns.
C30_KeyColumnIsCommon ==
    [][LET consumed == SubSeq(stdin, 1, Len(stdin) - Len(stdin'))
       IN  /\ stdin = consumed \o stdin'
           /\ files' = files
           /\ IF Ran("report")'
              THEN /\ results["report"].key_col' \in CommonColumns
                   /\ error' = NoError
                   /\ IF AutoDetected
                      THEN /\ consumed = <<>>
                           /\ results["report"].key_col'
                                 = auto_detect_key_column(get_csv_data(files.prod).headers)
                      ELSE /\ consumed # <<>>
                           /\ ChosenBy(consumed[Len(consumed)])
                                 = {results["report"].key_col'}
                           /\ \A n \in 1..(Len(consumed) - 1) :
                                  consumed[n] # CtrlC /\ ChosenBy(consumed[n]) = {}
              ELSE /\ ~AutoDetected
                   /\ error' \in {"EOFError", "SystemExit"}
                   /\ results' = results
                   /\ \A n \in 1..(Len(consumed) - 1) :
                          consumed[n] # CtrlC /\ ChosenBy(consumed[n]) = {}
                   /\ consumed # <<>> => ChosenBy(consumed[Len(consumed)]) = {}
           /\ CommonColumns = {} => ~Ran("report")']_vars

\* the first listed name of the PROD header is no API column, and the line
\* typed at the prompt chose a common column that is no listed name
C30_Witness ==
    /\ Ran("report")
    /\ auto_detect_key_column(get_csv_data(files.prod).headers) # None
    /\ ~AutoDetected
    /\ results["report"].key_col = COL_a
    /\ stdin = <<>>

(***************************************************************************)
(* Claims about column normalization                                       *)
(***************************************************************************)
Mandatory == {"name", "type", "plan"}

\* no column of the header can be taken for the field, however its name is
\* capitalised or padded
NoCandidate(f, hdr) ==
    \A k \in 1..Len(hdr) :
        LET col == lower(strip(hdr[k]))
        IN  IF f = "type" THEN ~contains(col, COL_type)
            ELSE IF f = "name" THEN col \notin {COL_name, lower(COL_Device_Name)}
            ELSE col # CanonicalName[f]

\* the script has been through its column normalization
Normalized ==
    calls = <<>> \/ Head(calls) \notin {"normalize_columns", "analyze_servicenow_data"}

\* C11: when one of the mandatory fields name, type, plan cannot be resolved
\* from the table's columns, the run fails with an error once it has
\* normalized the columns; a run that failed has run no analysis pass,
\* produced no finding collection and makes no further call; and finding
\* collections exist only for tables whose mandatory fields the script
\* resolved (cla3oct19.py normalize_columns/main, p.py
\* analyze_servicenow_data).
C11_UnresolvedMandatoryAborts ==
    /\ (Normalized /\ \E f \in Mandatory : NoCandidate(f, header)) => error # NoError
    /\ error # NoError => (results = NoResults /\ calls = <<>>)
    /\ Ran("analysis_1") => Mandatory \subseteq canonical_columns(header)
    /\ Ran("Duplicate Records") => Mandatory \subseteq servicenow_data_columns(header)
    /\ (Normalized /\ error = NoError) =>
           \/ Mandatory \subseteq canonical_columns(header)
           \/ Mandatory \subseteq servicenow_data_columns(header)

\* the cla3oct19.py run over a table without any plan column has been
\* stopped by normalize_columns
C11_Witness ==
    /\ error = "ValueError"
    /\ NoCandidate("plan", header)
    /\ calls = <<>>
    /\ results = NoResults

(***************************************************************************)
(* Claims about the duplicate analyses                                     *)
(***************************************************************************)
\* the findings of collection a that were built from record i
FindingsOf(a, i) == {k \in 1..Len(results[a].rows) : results[a].rows[k].idx = i}

Reported(a, i) == FindingsOf(a, i) # {}

AllPresent(key) == \A n \in 1..Len(key) : key[n] # None

\* the grouping keys of the records, the plan first
NameTypeKey ==
    [i \in 1..Len(data) |-> <<data[i].plan, data[i].actual_device_name, data[i].type>>]

SerialTypeKey ==
    [i \in 1..Len(data) |-> <<data[i].plan, data[i].serial_number, data[i].type>>]

SerialKey == [i \in 1..Len(data) |-> <<data[i].plan, data[i].serial_number>>]

ActualNameKey == [i \in 1..Len(data) |-> <<data[i].plan, data[i].actual_device_name>>]

\* plan, core name and type, the core name being the one the name
\* decomposes to
CoreNameTypeKey ==
    [i \in 1..Len(data) |->
        <<data[i].plan, ReferenceDecomposition(data[i].name)[2], data[i].type>>]

\* the records that share plan and key values with record i (i included)
Mates(key, i) == {j \in DOMAIN key : AllPresent(key[i]) /\ key[j] = key[i]}

Rows(a) == results[a].rows

\* every finding of collection a carries, in the given field, the size of its
\* record's group, and the group has that many findings
CountsMatch(a, key, field) ==
    \A k \in 1..Len(Rows(a)) :
        LET group == Mates(key, Rows(a)[k].idx)
        IN  /\ Rows(a)[k][field] = Cardinality(group)
            /\ Cardinality({m \in 1..Len(Rows(a)) : Rows(a)[m].idx \in group})
                   = Cardinality(group)

BlankSerial(i) == isna(data[i].serial_number) \/ strip(data[i].serial_number) = <<>>

\* record i of the scope has one finding when its group has two or more
\* records and none otherwise
ReportsGroupsOfTwo(a, key, scope) ==
    \A i \in scope :
        Cardinality(FindingsOf(a, i)) = IF Cardinality(Mates(key, i)) >= 2 THEN 1 ELSE 0

\* C2: per grouping key (core name + type in analysis 1 and in
\* analyze_servicenow_data of p.py, serial + type in analysis 2) the records
\* are partitioned by plan and then by key, and exactly the partitions of two
\* or more records are reported: a record has one finding when another
\* record shares its plan and key values, and none otherwise; every finding
\* of analyses 1 and 2 is labelled with its own record's plan and key, so
\* records of different plans are never in one group.  (The core name is
\* the one the name decomposes to; a blank serial number is no key value,
\* see C3.)
C2_ExactlyGroupsOfTwoReported ==
    /\ Ran("analysis_1") =>
          /\ ReportsGroupsOfTwo("analysis_1", CoreNameTypeKey, 1..Len(data))
          /\ \A k \in 1..Len(Rows("analysis_1")) :
                LET f == Rows("analysis_1")[k]
                IN  <<f.Plan, f.Device_Name, f.Type>> = CoreNameTypeKey[f.idx]
    /\ Ran("analysis_2") =>
          /\ ReportsGroupsOfTwo("analysis_2", SerialTypeKey,
                                {i \in 1..Len(data) : ~BlankSerial(i)})
          /\ \A k \in 1..Len(Rows("analysis_2")) :
                LET f == Rows("analysis_2")[k]
                IN  <<f.Plan, f.Serial_Number, f.Type>> = SerialTypeKey[f.idx]
    /\ Ran("Duplicate Records") =>
          ReportsGroupsOfTwo("Duplicate Records", CoreNameTypeKey, 1..Len(data))

\* C3: a record whose serial number is blank (missing, empty or whitespace
\* only) never appears in a finding of a serial-keyed analysis (analysis 2,
\* analysis 3, the BEFORE serial analysis).
C3_BlankSerialNeverReported ==
    \A a \in {"analysis_2", "analysis_3", "serial_dups"} :
        Ran(a) => \A i \in 1..Len(data) : BlankSerial(i) => ~Reported(a, i)

SameFullName(group) == \A i, j \in group : data[i].name = data[j].name

SameCoreName(group) ==
    \A i, j \in group : data[i].actual_device_name = data[j].actual_device_name

\* two members with different types
TypesDisagree(group) ==
    \E i, j \in group :
        notna(data[i].type) /\ notna(data[j].type) /\ data[i].type # data[j].type

\* two members with different prefixes, an absent prefix being different from
\* any present one
PrefixesDiffer(group) ==
    \E i, j \in group : data[i].name_type_prefix # data[j].name_type_prefix

\* the members carry exactly one type value, missing types not counted
OneType(group) ==
    Cardinality({data[i].type : i \in {j \in group : notna(data[j].type)}}) = 1

IsExact(f) == f.Duplicate_Type = "Exact Duplicate"

C5_TypeConflictIffTypesDisagree ==
    Ran("analysis_3") =>
        \A k \in 1..Len(Rows("analysis_3")) :
            (Rows("analysis_3")[k].Duplicate_Type = "Type Conflict")
                <=> TypesDisagree(Mates(SerialKey, Rows("analysis_3")[k].idx))

\* analysis 3 reported a Type Conflict group whose members all have the same
\* full name (so the same core name and prefix)
C5_Witness ==
    /\ Ran("analysis_3")
    /\ \E k \in 1..Len(Rows("analysis_3")) :
          /\ Rows("analysis_3")[k].Duplicate_Type = "Type Conflict"
          /\ SameFullName(Mates(SerialKey, Rows("analysis_3")[k].idx))

\* the classification C6 describes for a name/type-keyed group
MismatchRule(f, group) ==
    /\ (~SameFullName(group) /\ PrefixesDiffer(group))
           => f.Duplicate_Type = "Mismatch Duplicate"
    /\ f.Duplicate_Type = "Other Duplicate"
           <=> (~SameFullName(group) /\ ~PrefixesDiffer(group))

\* C6: a name/type-keyed group whose members do not all have the same
\* full_name is Mismatch Duplicate whenever two members differ in
\* name_prefix, an absent prefix counting as different from a present one,
\* and Other Duplicate only when all prefixes are equal - in analysis 1 and
\* in the BEFORE analysis.
C6_MismatchWhenPrefixesDiffer ==
    /\ Ran("analysis_1") =>
          \A k \in 1..Len(Rows("analysis_1")) :
              MismatchRule(Rows("analysis_1")[k],
                           Mates(NameTypeKey, Rows("analysis_1")[k].idx))
    /\ Ran("before_dups") =>
          \A k \in 1..Len(Rows("before_dups")) :
              MismatchRule(Rows("before_dups")[k],
                           Mates(NameTypeKey, Rows("before_dups")[k].idx))

(***************************************************************************)
(* Claims about the policy check                                           *)
(***************************************************************************)
\* the manual-entry tokens and production tokens of the specification
TruthyTokens == {<<"t","r","u","e">>, <<"1">>, <<"y","e","s">>, <<"t">>}

ProductionTokens ==
    {<<"p","r","o","d","u","c","t","i","o","n">>, <<"p","r","o","d">>, <<"p","r","d">>}

IsManual(row) == notna(row.manual_entry) /\ lower(row.manual_entry) \in TruthyTokens

IsProduction(row) == notna(row.environment) /\ lower(row.environment) \in ProductionTokens

IsBlank(x) == isna(x) \/ x = <<>>

\* C7: a record is reported as a policy violation if and only if its
\* manual-entry value is one of true / 1 / yes / t (any letter case) and its
\* environment is absent or is not one of production / prod / prd (any
\* letter case) - in cla3oct19.py's analysis_4, the first cla1 listing's
\* analyze_manual_nonprod_entries and p.py's analyze_servicenow_data.
C7_PolicyViolationIff ==
    \A a \in {"analysis_4", "manual_nonprod", "Manual Entry Non-Prod Records"} :
        Ran(a) =>
            \A i \in 1..Len(data) :
                Reported(a, i) <=> (IsManual(data[i]) /\ ~IsProduction(data[i]))

\* the policy findings among the rows p.py's analyze_servicenow_extract wrote
PolicyFindingsOfExtract(i) ==
    {k \in FindingsOf("final_df", i) :
        results["final_df"].rows[k].issue = "Manual entry in non-production or blank env"}

\* C8: every record with a truthy manual-entry value and a blank environment
\* (empty text, missing cell, or no environment column) has exactly one
\* policy finding of its own - in cla3oct19.py's analysis_4 and in p.py's
\* analyze_servicenow_extract.
C8_OneFindingPerBlankEnvManual ==
    \A i \in 1..Len(data) :
        (IsManual(data[i]) /\ IsBlank(data[i].environment)) =>
            /\ Ran("analysis_4") => Cardinality(FindingsOf("analysis_4", i)) = 1
            /\ Ran("final_df") => Cardinality(PolicyFindingsOfExtract(i)) = 1

(***************************************************************************)
(* Claims about the attribute transfer risk analysis                       *)
(***************************************************************************)
\* the record's name has a prefix and the prefix, or one of its words, is
\* part of the record's type, letter case aside
PrefixConsistent(i) ==
    /\ notna(data[i].name_type_prefix)
    /\ \E word \in {upper(data[i].name_type_prefix)}
                      \cup Range(words(upper(data[i].name_type_prefix))) :
           contains(upper(data[i].type), word)

\* the name/type groups of two records or more
RiskGroups ==
    {G \in {Mates(NameTypeKey, i) : i \in 1..Len(data)} : Cardinality(G) >= 2}

\* the first record of the group with a consistent prefix, the first record
\* of the group when there is none
Authoritative(G) ==
    LET qualified == {i \in G : PrefixConsistent(i)}
        pool == IF qualified = {} THEN G ELSE qualified
    IN  CHOOSE i \in pool : \A j \in pool : i <= j

AttributeOf(i, attr) == IF attr \in columns THEN data[i][attr] ELSE <<>>

NonEmpty(val) == notna(val) /\ strip(val) # <<>>

\* the attributes recorded in the given list of the findings of record i
Recorded(i, list) ==
    {entry.attr : entry \in UNION {Range(Rows("attr_risk")[k][list]) :
                                      k \in FindingsOf("attr_risk", i)}}

\* C20: for every member of a group other than the authoritative record,
\* members with a consistent prefix included, and for every critical
\* attribute, transfer_needed is recorded when the member's value is
\* non-empty and the authoritative record's is empty, a conflict when both
\* are non-empty and differ, and nothing otherwise.
C20_TransferAndConflictPerAttribute ==
    Ran("attr_risk") =>
        \A G \in RiskGroups : \A i \in G \ {Authoritative(G)} :
            \A attr \in Range(critical_attributes) :
                LET mine == AttributeOf(i, attr)
                    correct == AttributeOf(Authoritative(G), attr)
                IN  /\ attr \in Recorded(i, "Attributes_to_Transfer")
                           <=> (NonEmpty(mine) /\ ~NonEmpty(correct))
                    /\ attr \in Recorded(i, "Attribute_Conflicts")
                           <=> (NonEmpty(mine) /\ NonEmpty(correct) /\ mine # correct)

\* C21: the risk level of a non-authoritative record is None when it has no
\* entry, Transfer Needed when it has entries to transfer only, and Conflict
\* when it has a conflict entry, entries to transfer or not; a finding is
\* emitted for the record exactly when it has an entry, so no finding has
\* level None, and no finding has level Partial Transfer with Conflict.
C21_RiskLevelFromEntries ==
    Ran("attr_risk levels") =>
        /\ \A pass \in Range(results["attr_risk levels"]) :
               /\ pass.risk_level = "None"
                      <=> (pass.transfer_needed = <<>> /\ pass.transfer_conflict = <<>>)
               /\ pass.risk_level = "Transfer Needed"
                      <=> (pass.transfer_needed # <<>> /\ pass.transfer_conflict = <<>>)
               /\ pass.risk_level = "Conflict - Data Loss"
                      <=> pass.transfer_conflict # <<>>
               /\ Reported("attr_risk", pass.idx)
                      <=> (pass.transfer_needed # <<>> \/ pass.transfer_conflict # <<>>)
               /\ \A k \in FindingsOf("attr_risk", pass.idx) :
                      /\ Rows("attr_risk")[k].Risk_Level = pass.risk_level
                      /\ Rows("attr_risk")[k].Attributes_to_Transfer = pass.transfer_needed
                      /\ Rows("attr_risk")[k].Attribute_Conflicts = pass.transfer_conflict
        /\ \A k \in 1..Len(Rows("attr_risk")) :
               /\ Rows("attr_risk")[k].Risk_Level
                      \in {"Transfer Needed", "Conflict - Data Loss"}
               /\ \E pass \in Range(results["attr_risk levels"]) :
                      pass.idx = Rows("attr_risk")[k].idx

\* a group with a record that has an entry to transfer and a conflict and
\* was reported with level Conflict, and a record without entries that was
\* not reported
C21_Witness ==
    /\ Ran("attr_risk levels")
    /\ \E k \in 1..Len(Rows("attr_risk")) :
           /\ Rows("attr_risk")[k].Attributes_to_Transfer # <<>>
           /\ Rows("attr_risk")[k].Attribute_Conflicts # <<>>
           /\ Rows("attr_risk")[k].Risk_Level = "Conflict - Data Loss"
    /\ \E pass \in Range(results["attr_risk levels"]) :
           pass.risk_level = "None" /\ ~Reported("attr_risk", pass.idx)

(***************************************************************************)
(* Claims about the matching of column names                               *)
(***************************************************************************)
\* the recognized names of a canonical field, in lower case
VariantsInLowerCase(f) ==
    UNION {{lower(v) : v \in column_mapping[m].possible_names} :
              m \in {n \in 1..Len(column_mapping) : column_mapping[n].standard_name = f}}

\* the table has a column that is a recognized name of the field, letter
\* case aside
HasVariant(f, hdr) ==
    \E k \in 1..Len(hdr) : lower(hdr[k]) \in VariantsInLowerCase(f)

\* normalize_columns of cla3oct19.py has run
NormalizedByMapping ==
    \/ error = "ValueError"
    \/ calls # <<>> /\ Head(calls) = "extract_device_info"

\* C22: columns are mapped to canonical fields by comparing their names with
\* the recognized names without regard to letter case: a column that differs
\* from a recognized name in letter case only ('NAME', 'type', 'PLAN') is
\* renamed to the canonical field and satisfies the check for the mandatory
\* columns.
C22_CaseInsensitiveColumnMatch ==
    NormalizedByMapping =>
        /\ \A f \in DOMAIN CanonicalName :
               HasVariant(f, header) => f \in canonical_columns(header)
        /\ (\A f \in Mandatory : HasVariant(f, header)) => error = NoError

\* the score of a candidate column: its sampled values that name a CI type
\* less its sampled values that name a scope
Score(col) == ci_type_matches(files.sheet, col) - scope_matches(files.sheet, col)

Candidates == type_columns(files.sheet)

\* the first of the candidates with the highest score
HighestScoring ==
    Candidates[CHOOSE k \in 1..Len(Candidates) :
                   /\ \A j \in 1..Len(Candidates) : Score(Candidates[j]) <= Score(Candidates[k])
                   /\ \A j \in 1..(k - 1) : Score(Candidates[j]) < Score(Candidates[k])]

\* C23: when two or more columns are candidates for the type field, the
\* column chosen as the CI type column is the one with the highest score
\* (matches of CI type words less matches of scope words) over its sampled
\* values, the first of them when several have the highest score; and the
\* choice is the same on every run over the same table.
C23_HighestScoringTypeColumn ==
    /\ (Ran("_identify_type_column") /\ Len(Candidates) >= 2) =>
           results["_identify_type_column"] = HighestScoring
    /\ (Ran("_identify_type_column") /\ Ran("_identify_type_column again")) =>
           results["_identify_type_column again"] = results["_identify_type_column"]

(***************************************************************************)
(* Claims about what the analyses leave unchanged                          *)
(***************************************************************************)
\* the calls that load or prepare the dataset; every other call is an
\* analysis pass
Preparation == {"normalize_columns", "extract_device_info"}

\* C24: every analysis pass leaves the normalized dataset as it found it: no
\* column is added and no value rewritten (so that the findings of a pass
\* do not depend on the passes run before it).
C24_AnalysisPassesReadOnly ==
    [][(calls # <<>> /\ Head(calls) \notin Preparation)
          => (data' = data /\ columns' = columns)]_vars

(***************************************************************************)
(* Claims about sheets that cannot be normalized                           *)
(***************************************************************************)
\* a required column of the sheet cannot be resolved
Unresolved(sheet) ==
    \/ ~real_type_col(sheet.rows)
    \/ "name" \notin sheet.columns
    \/ "plan" \notin sheet.columns

\* a sheet of that name that can be analysed and has nothing to report
SheetWithoutFindings(sheet_name) ==
    [sheet_name |-> sheet_name,
     columns |-> {"name", "type", "plan", "manual_entry", "environment"},
     rows |-> <<Row(DB_S1, SERVER, PLAN1, None, X, PROD)>>]

\* the findings written for a sheet
WrittenFor(sheet_name) ==
    SelectSeq(results["final_df"].rows, LAMBDA row : row.sheet_name = sheet_name)

\* C25: when the sheets are processed one by one and a sheet cannot be
\* normalized, nothing is written for that sheet, the other sheets are
\* still analysed, and what is written differs from what would be written
\* had that sheet been analysed without any finding.
C25_AbortedSheetTellable ==
    (Ran("final_df") /\ ~results["final_df"].raised) =>
        \A n \in 1..Len(files.sheets) :
            IF Unresolved(files.sheets[n])
            THEN /\ WrittenFor(files.sheets[n].sheet_name) = <<>>
                 /\ results["final_df"]
                       \notin servicenow_extract_files(
                                  [files.sheets EXCEPT
                                     ![n] = SheetWithoutFindings(files.sheets[n].sheet_name)])
            ELSE \E sheet_result \in servicenow_extract_sheet(files.sheets[n]) :
                     WrittenFor(files.sheets[n].sheet_name) = sheet_result.rows

(***************************************************************************)
(* Claims about the manual entry flag of the duplicate findings            *)
(***************************************************************************)
\* some record of the group of record i with the full name of record i has
\* a manual entry value that is true
NamesakeIsManual(key, i) ==
    \E j \in Mates(key, i) : data[j].name = data[i].name /\ IsManual(data[j])

ManualFlagIsOfNamesakes(a, key) ==
    \A k \in 1..Len(Rows(a)) :
        Rows(a)[k].Is_Manual_Entry = "Yes" <=> NamesakeIsManual(key, Rows(a)[k].idx)

\* C26: in every duplicate finding of analyses 1 and 2, 'Is Manual Entry' is
\* 'Yes' if and only if some member of the same group with the same full
\* name has a manual entry value of TRUE, T, 1 or YES in any letter case; so
\* a record with such a value of its own is always flagged, and a record
\* without one is flagged exactly when it shares its full name with a
\* manual member of its group.
C26_ManualFlagByFullName ==
    /\ Ran("analysis_1") => ManualFlagIsOfNamesakes("analysis_1", NameTypeKey)
    /\ Ran("analysis_2") => ManualFlagIsOfNamesakes("analysis_2", SerialTypeKey)

\* a group of three: a manual record, a record of the same full name that is
\* not manual and is flagged, and a record of another full name that is not
C26_Witness ==
    /\ Ran("analysis_1")
    /\ Ran("analysis_2")
    /\ \A a \in {"analysis_1", "analysis_2"} :
           \E k, m \in 1..Len(Rows(a)) :
               /\ ~IsManual(data[Rows(a)[k].idx])
               /\ Rows(a)[k].Is_Manual_Entry = "Yes"
               /\ ~IsManual(data[Rows(a)[m].idx])
               /\ Rows(a)[m].Is_Manual_Entry = "No"

(***************************************************************************)
(* Claims relating the serial number analyses                              *)
(***************************************************************************)
\* the records a collection has a finding for
ReportedBy(a) == {Rows(a)[k].idx : k \in 1..Len(Rows(a))}

TypeConflicts ==
    {Rows("analysis_3")[k].idx :
        k \in {m \in 1..Len(Rows("analysis_3")) :
                  Rows("analysis_3")[m].Duplicate_Type = "Type Conflict"}}

\* C27: the records analysis 6 (same serial, different types) reports are
\* exactly the records analysis 3 (serial-only duplicates) reports with
\* Duplicate Type 'Type Conflict', each of them once, and the Type Count
\* analysis 6 gives is 2 or more.
C27_Analysis6IsTypeConflicts ==
    (Ran("analysis_3") /\ Ran("analysis_6")) =>
        /\ ReportedBy("analysis_6") = TypeConflicts
        /\ \A i \in ReportedBy("analysis_6") : Cardinality(FindingsOf("analysis_6", i)) = 1
        /\ \A k \in 1..Len(Rows("analysis_6")) : Rows("analysis_6")[k].Type_Count >= 2

\* a serial number with two types reported by both analyses, next to a
\* record without a type in the same group
C27_Witness ==
    /\ Ran("analysis_3")
    /\ Ran("analysis_6")
    /\ \E i \in ReportedBy("analysis_6") : isna(data[i].type)
    /\ \E k \in 1..Len(Rows("analysis_6")) : Rows("analysis_6")[k].Type_Count = 2

\* C28: every record analysis 2 (plan, serial and type groups of two or
\* more) reports is reported by analysis 3 (plan and serial groups of two
\* or more); when every record has a type and analysis 6 reports nothing,
\* the two analyses report the same records; so their numbers of records
\* differ only when analysis 6 has a finding or a type is missing.
C28_Analysis2WithinAnalysis3 ==
    (Ran("analysis_2") /\ Ran("analysis_3") /\ Ran("analysis_6")) =>
        /\ ReportedBy("analysis_2") \subseteq ReportedBy("analysis_3")
        /\ ((\A i \in 1..Len(data) : notna(data[i].type)) /\ Rows("analysis_6") = <<>>)
               => ReportedBy("analysis_2") = ReportedBy("analysis_3")
        /\ Len(Rows("analysis_2")) # Len(Rows("analysis_3"))
               => (Rows("analysis_6") # <<>> \/ \E i \in 1..Len(data) : isna(data[i].type))

\* two records of one serial and type and a third of the same serial and
\* another type: analysis 3 reports the three, analysis 2 two of them
C28_Witness ==
    /\ Ran("analysis_2")
    /\ Ran("analysis_3")
    /\ Ran("analysis_6")
    /\ ReportedBy("analysis_2") # {}
    /\ ReportedBy("analysis_3") \ ReportedBy("analysis_2") # {}
    /\ Rows("analysis_6") # <<>>

====
